---------------------------- MODULE Spec2Model ----------------------------
(***************************************************************************)
(* github-real-names: the content script (src/content.js), the handlers of *)
(* the popup (src/popup.js) and the background purge job                   *)
(* (src/background.js), as one state machine.                              *)
(*                                                                         *)
(* JavaScript strings are sequences of one-character strings, so that      *)
(* trimming, lower-casing and prefix tests are computed, not assumed.      *)
(* Every asynchronous function is a task whose position is the await it is *)
(* suspended at; one action resumes one task and runs it to its next await.*)
(* A chrome.storage call takes effect when it is issued and its result is  *)
(* delivered to the task when the await resumes.                           *)
(***************************************************************************)
EXTENDS Integers, Sequences, FiniteSets, Bags, TLC

\* ------------------------------------------------------------------ bounds
\* Specification Spec: the asynchronous tasks suspended at the same time, and
\* the events of the environment (the popup being opened, a clock advance,
\* the durable store becoming unavailable, a clearOldCache alarm) in a
\* behaviour, which also bounds the clicks made in the popup.
MaxTasks == 1
MaxEvents == 1
\* Specifications SpecRace and SpecRoundTrip: the tasks suspended at the same
\* time.
RaceTasks == 2
\* Specification SpecBatch: the tasks suspended at the same time.
BatchTasks == 3
\* Specification SpecRender: the text nodes of an element, and the renders
\* applied to it.
MaxTextNodes == 2
MaxRenders == 2
\* Specifications SpecToggle and SpecRefresh: the clicks made in the popup.
MaxClicks == 2
\* Specification SpecPurge: the clock advances and alarms.
PurgeEvents == 2
\* Specification SpecScan: the elements of the page that match the
\* selectors, and those of them that show their handle.
MaxMatched == 101
ScanHandles == 1

\* --------------------------------------------------------------- constants
MAX_USERNAME_LENGTH == 39
BATCH_SIZE == 50
HOUR_MS == 60 * 60 * 1000
REVALIDATE_AGE_MS == 24 * 60 * 60 * 1000
CACHE_MAX_AGE_MS == 7 * 24 * 60 * 60 * 1000

\* ----------------------------------------------------------------- strings
\* null / undefined, distinct from every string (whose elements are
\* characters) and from the empty string.
Null == <<"<null>">>

\* JavaScript truthiness of a string-or-null value.
Truthy(s) == s # Null /\ s # <<>>

\* The printable ASCII characters, code 32 to 126, in code order (the grave
\* accent, which a TLA+ string cannot hold, by a token).
AsciiPrintable ==
    <<" ", "!", "\"", "#", "$", "%", "&", "'", "(", ")", "*", "+",
      ",", "-", ".", "/", "0", "1", "2", "3", "4", "5", "6", "7",
      "8", "9", ":", ";", "<", "=", ">", "?", "@", "A", "B", "C",
      "D", "E", "F", "G", "H", "I", "J", "K", "L", "M", "N", "O",
      "P", "Q", "R", "S", "T", "U", "V", "W", "X", "Y", "Z", "[",
      "\\", "]", "^", "_", "<grave>", "a", "b", "c", "d", "e", "f", "g",
      "h", "i", "j", "k", "l", "m", "n", "o", "p", "q", "r", "s",
      "t", "u", "v", "w", "x", "y", "z", "{", "|", "}", "~">>

HexDigits ==
    <<"0", "1", "2", "3", "4", "5", "6", "7", "8", "9", "a", "b", "c", "d", "e", "f">>

\* String.fromCharCode(c) for a UTF-16 code unit c: the character itself when
\* it is printable ASCII, a tab or a line feed, and a token that names the
\* code unit otherwise.
fromCharCode(c) ==
    IF c \in 32..126 THEN AsciiPrintable[c - 31]
    ELSE IF c = 9 THEN "\t"
    ELSE IF c = 10 THEN "\n"
    ELSE "U+" \o ToString(c)

\* The UTF-16 code units of a code point, as characters.
codeUnits(cp) ==
    IF cp < 65536
    THEN <<fromCharCode(cp)>>
    ELSE <<fromCharCode(55296 + (cp - 65536) \div 1024),
           fromCharCode(56320 + ((cp - 65536) % 1024))>>

Digits == {"0", "1", "2", "3", "4", "5", "6", "7", "8", "9"}

HexLower == Digits \cup {"a", "b", "c", "d", "e", "f"}

\* The lower-case letter of each upper-case letter of ASCII.
AsciiLower ==
    [c \in {AsciiPrintable[i] : i \in 34..59} |->
        AsciiPrintable[(CHOOSE i \in 34..59 : AsciiPrintable[i] = c) + 32]]

\* ------------------------------------------ String.prototype.toLowerCase
\* toLowerCase() maps every code point of the string to its lower-case
\* mapping in the Unicode Character Database (toLowercase of the Unicode
\* Standard, version 17.0, without a locale).
\*
\* The simple lower-case mappings: <<first, last, step, delta>> maps each of
\* the code points first, first + step, ..., last to itself plus delta.
LowerRuns ==
    {<<65, 90, 1, 32>>, <<192, 214, 1, 32>>, <<216, 222, 1, 32>>,
      <<256, 302, 2, 1>>, <<306, 310, 2, 1>>, <<313, 327, 2, 1>>,
      <<330, 374, 2, 1>>, <<376, 376, 1, -121>>, <<377, 381, 2, 1>>,
      <<385, 385, 1, 210>>, <<386, 388, 2, 1>>, <<390, 390, 1, 206>>,
      <<391, 391, 1, 1>>, <<393, 394, 1, 205>>, <<395, 395, 1, 1>>,
      <<398, 398, 1, 79>>, <<399, 399, 1, 202>>, <<400, 400, 1, 203>>,
      <<401, 401, 1, 1>>, <<403, 403, 1, 205>>, <<404, 404, 1, 207>>,
      <<406, 406, 1, 211>>, <<407, 407, 1, 209>>, <<408, 408, 1, 1>>,
      <<412, 412, 1, 211>>, <<413, 413, 1, 213>>, <<415, 415, 1, 214>>,
      <<416, 420, 2, 1>>, <<422, 422, 1, 218>>, <<423, 423, 1, 1>>,
      <<425, 425, 1, 218>>, <<428, 428, 1, 1>>, <<430, 430, 1, 218>>,
      <<431, 431, 1, 1>>, <<433, 434, 1, 217>>, <<435, 437, 2, 1>>,
      <<439, 439, 1, 219>>, <<440, 440, 1, 1>>, <<444, 444, 1, 1>>,
      <<452, 452, 1, 2>>, <<453, 453, 1, 1>>, <<455, 455, 1, 2>>,
      <<456, 456, 1, 1>>, <<458, 458, 1, 2>>, <<459, 475, 2, 1>>,
      <<478, 494, 2, 1>>, <<497, 497, 1, 2>>, <<498, 500, 2, 1>>,
      <<502, 502, 1, -97>>, <<503, 503, 1, -56>>, <<504, 542, 2, 1>>,
      <<544, 544, 1, -130>>, <<546, 562, 2, 1>>, <<570, 570, 1, 10795>>,
      <<571, 571, 1, 1>>, <<573, 573, 1, -163>>, <<574, 574, 1, 10792>>,
      <<577, 577, 1, 1>>, <<579, 579, 1, -195>>, <<580, 580, 1, 69>>,
      <<581, 581, 1, 71>>, <<582, 590, 2, 1>>, <<880, 882, 2, 1>>,
      <<886, 886, 1, 1>>, <<895, 895, 1, 116>>, <<902, 902, 1, 38>>,
      <<904, 906, 1, 37>>, <<908, 908, 1, 64>>, <<910, 911, 1, 63>>,
      <<913, 929, 1, 32>>, <<931, 939, 1, 32>>, <<975, 975, 1, 8>>,
      <<984, 1006, 2, 1>>, <<1012, 1012, 1, -60>>, <<1015, 1015, 1, 1>>,
      <<1017, 1017, 1, -7>>, <<1018, 1018, 1, 1>>, <<1021, 1023, 1, -130>>,
      <<1024, 1039, 1, 80>>, <<1040, 1071, 1, 32>>, <<1120, 1152, 2, 1>>,
      <<1162, 1214, 2, 1>>, <<1216, 1216, 1, 15>>, <<1217, 1229, 2, 1>>,
      <<1232, 1326, 2, 1>>, <<1329, 1366, 1, 48>>, <<4256, 4293, 1, 7264>>,
      <<4295, 4295, 1, 7264>>, <<4301, 4301, 1, 7264>>,
      <<5024, 5103, 1, 38864>>, <<5104, 5109, 1, 8>>, <<7305, 7305, 1, 1>>,
      <<7312, 7354, 1, -3008>>, <<7357, 7359, 1, -3008>>,
      <<7680, 7828, 2, 1>>, <<7838, 7838, 1, -7615>>, <<7840, 7934, 2, 1>>,
      <<7944, 7951, 1, -8>>, <<7960, 7965, 1, -8>>, <<7976, 7983, 1, -8>>,
      <<7992, 7999, 1, -8>>, <<8008, 8013, 1, -8>>, <<8025, 8031, 2, -8>>,
      <<8040, 8047, 1, -8>>, <<8072, 8079, 1, -8>>, <<8088, 8095, 1, -8>>,
      <<8104, 8111, 1, -8>>, <<8120, 8121, 1, -8>>, <<8122, 8123, 1, -74>>,
      <<8124, 8124, 1, -9>>, <<8136, 8139, 1, -86>>, <<8140, 8140, 1, -9>>,
      <<8152, 8153, 1, -8>>, <<8154, 8155, 1, -100>>, <<8168, 8169, 1, -8>>,
      <<8170, 8171, 1, -112>>, <<8172, 8172, 1, -7>>,
      <<8184, 8185, 1, -128>>, <<8186, 8187, 1, -126>>,
      <<8188, 8188, 1, -9>>, <<8486, 8486, 1, -7517>>,
      <<8490, 8490, 1, -8383>>, <<8491, 8491, 1, -8262>>,
      <<8498, 8498, 1, 28>>, <<8544, 8559, 1, 16>>, <<8579, 8579, 1, 1>>,
      <<9398, 9423, 1, 26>>, <<11264, 11311, 1, 48>>, <<11360, 11360, 1, 1>>,
      <<11362, 11362, 1, -10743>>, <<11363, 11363, 1, -3814>>,
      <<11364, 11364, 1, -10727>>, <<11367, 11371, 2, 1>>,
      <<11373, 11373, 1, -10780>>, <<11374, 11374, 1, -10749>>,
      <<11375, 11375, 1, -10783>>, <<11376, 11376, 1, -10782>>,
      <<11378, 11378, 1, 1>>, <<11381, 11381, 1, 1>>,
      <<11390, 11391, 1, -10815>>, <<11392, 11490, 2, 1>>,
      <<11499, 11501, 2, 1>>, <<11506, 11506, 1, 1>>, <<42560, 42604, 2, 1>>,
      <<42624, 42650, 2, 1>>, <<42786, 42798, 2, 1>>, <<42802, 42862, 2, 1>>,
      <<42873, 42875, 2, 1>>, <<42877, 42877, 1, -35332>>,
      <<42878, 42886, 2, 1>>, <<42891, 42891, 1, 1>>,
      <<42893, 42893, 1, -42280>>, <<42896, 42898, 2, 1>>,
      <<42902, 42920, 2, 1>>, <<42922, 42922, 1, -42308>>,
      <<42923, 42923, 1, -42319>>, <<42924, 42924, 1, -42315>>,
      <<42925, 42925, 1, -42305>>, <<42926, 42926, 1, -42308>>,
      <<42928, 42928, 1, -42258>>, <<42929, 42929, 1, -42282>>,
      <<42930, 42930, 1, -42261>>, <<42931, 42931, 1, 928>>,
      <<42932, 42946, 2, 1>>, <<42948, 42948, 1, -48>>,
      <<42949, 42949, 1, -42307>>, <<42950, 42950, 1, -35384>>,
      <<42951, 42953, 2, 1>>, <<42955, 42955, 1, -42343>>,
      <<42956, 42970, 2, 1>>, <<42972, 42972, 1, -42561>>,
      <<42997, 42997, 1, 1>>, <<65313, 65338, 1, 32>>,
      <<66560, 66599, 1, 40>>, <<66736, 66771, 1, 40>>,
      <<66928, 66938, 1, 39>>, <<66940, 66954, 1, 39>>,
      <<66956, 66962, 1, 39>>, <<66964, 66965, 1, 39>>,
      <<68736, 68786, 1, 64>>, <<68944, 68965, 1, 32>>,
      <<71840, 71871, 1, 32>>, <<93760, 93791, 1, 32>>,
      <<93856, 93880, 1, 27>>, <<125184, 125217, 1, 34>>}

\* The lower-case mapping of every code point that has one, both as UTF-16
\* code units.  U+0130 is the one code point whose mapping (SpecialCasing)
\* has two code points: i and U+0307.
LowerPairs ==
    UNION {{<<codeUnits(r[1] + k * r[3]), codeUnits(r[1] + k * r[3] + r[4])>> :
               k \in 0..((r[2] - r[1]) \div r[3])} : r \in LowerRuns}
    \cup {<<codeUnits(304), codeUnits(105) \o codeUnits(775)>>}

LowerDomain == {p[1] : p \in LowerPairs}

\* The code points (as code units) with the property Case_Ignorable.
CaseIgnorableRanges ==
    {<<39, 39>>, <<46, 46>>, <<58, 58>>, <<94, 94>>, <<96, 96>>,
      <<168, 168>>, <<173, 173>>, <<175, 175>>, <<180, 180>>, <<183, 184>>,
      <<688, 879>>, <<884, 885>>, <<890, 890>>, <<900, 901>>, <<903, 903>>,
      <<1155, 1161>>, <<1369, 1369>>, <<1375, 1375>>, <<1425, 1469>>,
      <<1471, 1471>>, <<1473, 1474>>, <<1476, 1477>>, <<1479, 1479>>,
      <<1524, 1524>>, <<1536, 1541>>, <<1552, 1562>>, <<1564, 1564>>,
      <<1600, 1600>>, <<1611, 1631>>, <<1648, 1648>>, <<1750, 1757>>,
      <<1759, 1768>>, <<1770, 1773>>, <<1807, 1807>>, <<1809, 1809>>,
      <<1840, 1866>>, <<1958, 1968>>, <<2027, 2037>>, <<2042, 2042>>,
      <<2045, 2045>>, <<2070, 2093>>, <<2137, 2139>>, <<2184, 2184>>,
      <<2192, 2193>>, <<2199, 2207>>, <<2249, 2306>>, <<2362, 2362>>,
      <<2364, 2364>>, <<2369, 2376>>, <<2381, 2381>>, <<2385, 2391>>,
      <<2402, 2403>>, <<2417, 2417>>, <<2433, 2433>>, <<2492, 2492>>,
      <<2497, 2500>>, <<2509, 2509>>, <<2530, 2531>>, <<2558, 2558>>,
      <<2561, 2562>>, <<2620, 2620>>, <<2625, 2626>>, <<2631, 2632>>,
      <<2635, 2637>>, <<2641, 2641>>, <<2672, 2673>>, <<2677, 2677>>,
      <<2689, 2690>>, <<2748, 2748>>, <<2753, 2757>>, <<2759, 2760>>,
      <<2765, 2765>>, <<2786, 2787>>, <<2810, 2815>>, <<2817, 2817>>,
      <<2876, 2876>>, <<2879, 2879>>, <<2881, 2884>>, <<2893, 2893>>,
      <<2901, 2902>>, <<2914, 2915>>, <<2946, 2946>>, <<3008, 3008>>,
      <<3021, 3021>>, <<3072, 3072>>, <<3076, 3076>>, <<3132, 3132>>,
      <<3134, 3136>>, <<3142, 3144>>, <<3146, 3149>>, <<3157, 3158>>,
      <<3170, 3171>>, <<3201, 3201>>, <<3260, 3260>>, <<3263, 3263>>,
      <<3270, 3270>>, <<3276, 3277>>, <<3298, 3299>>, <<3328, 3329>>,
      <<3387, 3388>>, <<3393, 3396>>, <<3405, 3405>>, <<3426, 3427>>,
      <<3457, 3457>>, <<3530, 3530>>, <<3538, 3540>>, <<3542, 3542>>,
      <<3633, 3633>>, <<3636, 3642>>, <<3654, 3662>>, <<3761, 3761>>,
      <<3764, 3772>>, <<3782, 3782>>, <<3784, 3790>>, <<3864, 3865>>,
      <<3893, 3893>>, <<3895, 3895>>, <<3897, 3897>>, <<3953, 3966>>,
      <<3968, 3972>>, <<3974, 3975>>, <<3981, 3991>>, <<3993, 4028>>,
      <<4038, 4038>>, <<4141, 4144>>, <<4146, 4151>>, <<4153, 4154>>,
      <<4157, 4158>>, <<4184, 4185>>, <<4190, 4192>>, <<4209, 4212>>,
      <<4226, 4226>>, <<4229, 4230>>, <<4237, 4237>>, <<4253, 4253>>,
      <<4348, 4348>>, <<4957, 4959>>, <<5906, 5908>>, <<5938, 5939>>,
      <<5970, 5971>>, <<6002, 6003>>, <<6068, 6069>>, <<6071, 6077>>,
      <<6086, 6086>>, <<6089, 6099>>, <<6103, 6103>>, <<6109, 6109>>,
      <<6155, 6159>>, <<6211, 6211>>, <<6277, 6278>>, <<6313, 6313>>,
      <<6432, 6434>>, <<6439, 6440>>, <<6450, 6450>>, <<6457, 6459>>,
      <<6679, 6680>>, <<6683, 6683>>, <<6742, 6742>>, <<6744, 6750>>,
      <<6752, 6752>>, <<6754, 6754>>, <<6757, 6764>>, <<6771, 6780>>,
      <<6783, 6783>>, <<6823, 6823>>, <<6832, 6877>>, <<6880, 6891>>,
      <<6912, 6915>>, <<6964, 6964>>, <<6966, 6970>>, <<6972, 6972>>,
      <<6978, 6978>>, <<7019, 7027>>, <<7040, 7041>>, <<7074, 7077>>,
      <<7080, 7081>>, <<7083, 7085>>, <<7142, 7142>>, <<7144, 7145>>,
      <<7149, 7149>>, <<7151, 7153>>, <<7212, 7219>>, <<7222, 7223>>,
      <<7288, 7293>>, <<7376, 7378>>, <<7380, 7392>>, <<7394, 7400>>,
      <<7405, 7405>>, <<7412, 7412>>, <<7416, 7417>>, <<7468, 7530>>,
      <<7544, 7544>>, <<7579, 7679>>, <<8125, 8125>>, <<8127, 8129>>,
      <<8141, 8143>>, <<8157, 8159>>, <<8173, 8175>>, <<8189, 8190>>,
      <<8203, 8207>>, <<8216, 8217>>, <<8228, 8228>>, <<8231, 8231>>,
      <<8234, 8238>>, <<8288, 8292>>, <<8294, 8303>>, <<8305, 8305>>,
      <<8319, 8319>>, <<8336, 8348>>, <<8400, 8432>>, <<11388, 11389>>,
      <<11503, 11505>>, <<11631, 11631>>, <<11647, 11647>>, <<11744, 11775>>,
      <<11823, 11823>>, <<12293, 12293>>, <<12330, 12333>>, <<12337, 12341>>,
      <<12347, 12347>>, <<12441, 12446>>, <<12540, 12542>>, <<40981, 40981>>,
      <<42232, 42237>>, <<42508, 42508>>, <<42607, 42610>>, <<42612, 42621>>,
      <<42623, 42623>>, <<42652, 42655>>, <<42736, 42737>>, <<42752, 42785>>,
      <<42864, 42864>>, <<42888, 42890>>, <<42993, 42996>>, <<43000, 43001>>,
      <<43010, 43010>>, <<43014, 43014>>, <<43019, 43019>>, <<43045, 43046>>,
      <<43052, 43052>>, <<43204, 43205>>, <<43232, 43249>>, <<43263, 43263>>,
      <<43302, 43309>>, <<43335, 43345>>, <<43392, 43394>>, <<43443, 43443>>,
      <<43446, 43449>>, <<43452, 43453>>, <<43471, 43471>>, <<43493, 43494>>,
      <<43561, 43566>>, <<43569, 43570>>, <<43573, 43574>>, <<43587, 43587>>,
      <<43596, 43596>>, <<43632, 43632>>, <<43644, 43644>>, <<43696, 43696>>,
      <<43698, 43700>>, <<43703, 43704>>, <<43710, 43711>>, <<43713, 43713>>,
      <<43741, 43741>>, <<43756, 43757>>, <<43763, 43764>>, <<43766, 43766>>,
      <<43867, 43871>>, <<43881, 43883>>, <<44005, 44005>>, <<44008, 44008>>,
      <<44013, 44013>>, <<64286, 64286>>, <<64434, 64450>>, <<65024, 65039>>,
      <<65043, 65043>>, <<65056, 65071>>, <<65106, 65106>>, <<65109, 65109>>,
      <<65279, 65279>>, <<65287, 65287>>, <<65294, 65294>>, <<65306, 65306>>,
      <<65342, 65342>>, <<65344, 65344>>, <<65392, 65392>>, <<65438, 65439>>,
      <<65507, 65507>>, <<65529, 65531>>, <<66045, 66045>>, <<66272, 66272>>,
      <<66422, 66426>>, <<67456, 67461>>, <<67463, 67504>>, <<67506, 67514>>,
      <<68097, 68099>>, <<68101, 68102>>, <<68108, 68111>>, <<68152, 68154>>,
      <<68159, 68159>>, <<68325, 68326>>, <<68900, 68903>>, <<68942, 68942>>,
      <<68969, 68973>>, <<68975, 68975>>, <<69291, 69292>>, <<69317, 69317>>,
      <<69370, 69375>>, <<69446, 69456>>, <<69506, 69509>>, <<69633, 69633>>,
      <<69688, 69702>>, <<69744, 69744>>, <<69747, 69748>>, <<69759, 69761>>,
      <<69811, 69814>>, <<69817, 69818>>, <<69821, 69821>>, <<69826, 69826>>,
      <<69837, 69837>>, <<69888, 69890>>, <<69927, 69931>>, <<69933, 69940>>,
      <<70003, 70003>>, <<70016, 70017>>, <<70070, 70078>>, <<70089, 70092>>,
      <<70095, 70095>>, <<70191, 70193>>, <<70196, 70196>>, <<70198, 70199>>,
      <<70206, 70206>>, <<70209, 70209>>, <<70367, 70367>>, <<70371, 70378>>,
      <<70400, 70401>>, <<70459, 70460>>, <<70464, 70464>>, <<70502, 70508>>,
      <<70512, 70516>>, <<70587, 70592>>, <<70606, 70606>>, <<70608, 70608>>,
      <<70610, 70610>>, <<70625, 70626>>, <<70712, 70719>>, <<70722, 70724>>,
      <<70726, 70726>>, <<70750, 70750>>, <<70835, 70840>>, <<70842, 70842>>,
      <<70847, 70848>>, <<70850, 70851>>, <<71090, 71093>>, <<71100, 71101>>,
      <<71103, 71104>>, <<71132, 71133>>, <<71219, 71226>>, <<71229, 71229>>,
      <<71231, 71232>>, <<71339, 71339>>, <<71341, 71341>>, <<71344, 71349>>,
      <<71351, 71351>>, <<71453, 71453>>, <<71455, 71455>>, <<71458, 71461>>,
      <<71463, 71467>>, <<71727, 71735>>, <<71737, 71738>>, <<71995, 71996>>,
      <<71998, 71998>>, <<72003, 72003>>, <<72148, 72151>>, <<72154, 72155>>,
      <<72160, 72160>>, <<72193, 72202>>, <<72243, 72248>>, <<72251, 72254>>,
      <<72263, 72263>>, <<72273, 72278>>, <<72281, 72283>>, <<72330, 72342>>,
      <<72344, 72345>>, <<72544, 72544>>, <<72546, 72548>>, <<72550, 72550>>,
      <<72752, 72758>>, <<72760, 72765>>, <<72767, 72767>>, <<72850, 72871>>,
      <<72874, 72880>>, <<72882, 72883>>, <<72885, 72886>>, <<73009, 73014>>,
      <<73018, 73018>>, <<73020, 73021>>, <<73023, 73029>>, <<73031, 73031>>,
      <<73104, 73105>>, <<73109, 73109>>, <<73111, 73111>>, <<73177, 73177>>,
      <<73459, 73460>>, <<73472, 73473>>, <<73526, 73530>>, <<73536, 73536>>,
      <<73538, 73538>>, <<73562, 73562>>, <<78896, 78912>>, <<78919, 78933>>,
      <<90398, 90409>>, <<90413, 90415>>, <<92912, 92916>>, <<92976, 92982>>,
      <<92992, 92995>>, <<93504, 93506>>, <<93547, 93548>>, <<94031, 94031>>,
      <<94095, 94111>>, <<94176, 94177>>, <<94179, 94180>>, <<94194, 94195>>,
      <<110576, 110579>>, <<110581, 110587>>, <<110589, 110590>>,
      <<113821, 113822>>, <<113824, 113827>>, <<118528, 118573>>,
      <<118576, 118598>>, <<119143, 119145>>, <<119155, 119170>>,
      <<119173, 119179>>, <<119210, 119213>>, <<119362, 119364>>,
      <<121344, 121398>>, <<121403, 121452>>, <<121461, 121461>>,
      <<121476, 121476>>, <<121499, 121503>>, <<121505, 121519>>,
      <<122880, 122886>>, <<122888, 122904>>, <<122907, 122913>>,
      <<122915, 122916>>, <<122918, 122922>>, <<122928, 122989>>,
      <<123023, 123023>>, <<123184, 123197>>, <<123566, 123566>>,
      <<123628, 123631>>, <<124139, 124143>>, <<124398, 124399>>,
      <<124643, 124643>>, <<124646, 124646>>, <<124654, 124655>>,
      <<124661, 124661>>, <<124671, 124671>>, <<125136, 125142>>,
      <<125252, 125259>>, <<127995, 127999>>, <<917505, 917505>>,
      <<917536, 917631>>, <<917760, 917999>>}

CaseIgnorable ==
    UNION {{codeUnits(cp) : cp \in r[1]..r[2]} : r \in CaseIgnorableRanges}

\* The code points (as code units) with the property Cased that are not
\* Case_Ignorable.
CasedRanges ==
    {<<65, 90>>, <<97, 122>>, <<170, 170>>, <<181, 181>>, <<186, 186>>,
      <<192, 214>>, <<216, 246>>, <<248, 442>>, <<444, 447>>, <<452, 659>>,
      <<662, 687>>, <<880, 883>>, <<886, 887>>, <<891, 893>>, <<895, 895>>,
      <<902, 902>>, <<904, 906>>, <<908, 908>>, <<910, 929>>, <<931, 1013>>,
      <<1015, 1153>>, <<1162, 1327>>, <<1329, 1366>>, <<1376, 1416>>,
      <<4256, 4293>>, <<4295, 4295>>, <<4301, 4301>>, <<4304, 4346>>,
      <<4349, 4351>>, <<5024, 5109>>, <<5112, 5117>>, <<7296, 7306>>,
      <<7312, 7354>>, <<7357, 7359>>, <<7424, 7467>>, <<7531, 7543>>,
      <<7545, 7578>>, <<7680, 7957>>, <<7960, 7965>>, <<7968, 8005>>,
      <<8008, 8013>>, <<8016, 8023>>, <<8025, 8025>>, <<8027, 8027>>,
      <<8029, 8029>>, <<8031, 8061>>, <<8064, 8116>>, <<8118, 8124>>,
      <<8126, 8126>>, <<8130, 8132>>, <<8134, 8140>>, <<8144, 8147>>,
      <<8150, 8155>>, <<8160, 8172>>, <<8178, 8180>>, <<8182, 8188>>,
      <<8450, 8450>>, <<8455, 8455>>, <<8458, 8467>>, <<8469, 8469>>,
      <<8473, 8477>>, <<8484, 8484>>, <<8486, 8486>>, <<8488, 8488>>,
      <<8490, 8493>>, <<8495, 8500>>, <<8505, 8505>>, <<8508, 8511>>,
      <<8517, 8521>>, <<8526, 8526>>, <<8544, 8575>>, <<8579, 8580>>,
      <<9398, 9449>>, <<11264, 11387>>, <<11390, 11492>>, <<11499, 11502>>,
      <<11506, 11507>>, <<11520, 11557>>, <<11559, 11559>>, <<11565, 11565>>,
      <<42560, 42605>>, <<42624, 42651>>, <<42786, 42863>>, <<42865, 42887>>,
      <<42891, 42894>>, <<42896, 42972>>, <<42997, 42998>>, <<43002, 43002>>,
      <<43824, 43866>>, <<43872, 43880>>, <<43888, 43967>>, <<64256, 64262>>,
      <<64275, 64279>>, <<65313, 65338>>, <<65345, 65370>>, <<66560, 66639>>,
      <<66736, 66771>>, <<66776, 66811>>, <<66928, 66938>>, <<66940, 66954>>,
      <<66956, 66962>>, <<66964, 66965>>, <<66967, 66977>>, <<66979, 66993>>,
      <<66995, 67001>>, <<67003, 67004>>, <<68736, 68786>>, <<68800, 68850>>,
      <<68944, 68965>>, <<68976, 68997>>, <<71840, 71903>>, <<93760, 93823>>,
      <<93856, 93880>>, <<93883, 93907>>, <<119808, 119892>>,
      <<119894, 119964>>, <<119966, 119967>>, <<119970, 119970>>,
      <<119973, 119974>>, <<119977, 119980>>, <<119982, 119993>>,
      <<119995, 119995>>, <<119997, 120003>>, <<120005, 120069>>,
      <<120071, 120074>>, <<120077, 120084>>, <<120086, 120092>>,
      <<120094, 120121>>, <<120123, 120126>>, <<120128, 120132>>,
      <<120134, 120134>>, <<120138, 120144>>, <<120146, 120485>>,
      <<120488, 120512>>, <<120514, 120538>>, <<120540, 120570>>,
      <<120572, 120596>>, <<120598, 120628>>, <<120630, 120654>>,
      <<120656, 120686>>, <<120688, 120712>>, <<120714, 120744>>,
      <<120746, 120770>>, <<120772, 120779>>, <<122624, 122633>>,
      <<122635, 122654>>, <<122661, 122666>>, <<125184, 125251>>,
      <<127280, 127305>>, <<127312, 127337>>, <<127344, 127369>>}

Cased == UNION {{codeUnits(cp) : cp \in r[1]..r[2]} : r \in CasedRanges}

HighSurrogates == {fromCharCode(c) : c \in 55296..56319}

LowSurrogates == {fromCharCode(c) : c \in 56320..57343}

\* The code point of s that starts at index i, as its code units: a
\* surrogate pair, or one code unit.
codePointAt(s, i) ==
    IF i < Len(s) /\ s[i] \in HighSurrogates /\ s[i + 1] \in LowSurrogates
    THEN <<s[i], s[i + 1]>>
    ELSE <<s[i]>>

\* The code point of s that ends at index i.
codePointBefore(s, i) ==
    IF i > 1 /\ s[i] \in LowSurrogates /\ s[i - 1] \in HighSurrogates
    THEN <<s[i - 1], s[i]>>
    ELSE <<s[i]>>

\* The lower-case mapping of the code point u where no context applies.
toLowerCodePoint(u) ==
    IF u \in LowerDomain
    THEN (CHOOSE p \in LowerPairs : p[1] = u)[2]
    ELSE u

\* The code points of s before index i are case-ignorable ones preceded by
\* a cased letter.
RECURSIVE afterCased(_, _)
afterCased(s, i) ==
    IF i <= 1
    THEN FALSE
    ELSE IF codePointBefore(s, i - 1) \in CaseIgnorable
    THEN afterCased(s, i - Len(codePointBefore(s, i - 1)))
    ELSE codePointBefore(s, i - 1) \in Cased

\* The code points of s from index i on are case-ignorable ones followed by
\* a cased letter.
RECURSIVE beforeCased(_, _)
beforeCased(s, i) ==
    IF i > Len(s)
    THEN FALSE
    ELSE IF codePointAt(s, i) \in CaseIgnorable
    THEN beforeCased(s, i + Len(codePointAt(s, i)))
    ELSE codePointAt(s, i) \in Cased

\* The condition Final_Sigma of SpecialCasing for the capital sigma at index
\* i of s: it ends a word.
isFinalSigma(s, i) == afterCased(s, i) /\ ~beforeCased(s, i + 1)

\* s.toLowerCase() from index i on: a capital sigma (U+03A3) that ends a
\* word becomes the final sigma (U+03C2).
RECURSIVE lowerFrom(_, _)
lowerFrom(s, i) ==
    IF i > Len(s)
    THEN <<>>
    ELSE (IF s[i] = fromCharCode(931) /\ isFinalSigma(s, i)
          THEN codeUnits(962)
          ELSE toLowerCodePoint(codePointAt(s, i)))
         \o lowerFrom(s, i + Len(codePointAt(s, i)))

toLowerCase(s) == lowerFrom(s, 1)

\* The code units of WhiteSpace and LineTerminator.
WhiteSpaceCodes ==
    {9, 10, 11, 12, 13, 32, 160, 5760, 8232, 8233, 8239, 8287, 12288, 65279}
    \cup (8192..8202)

WhiteSpace == {fromCharCode(c) : c \in WhiteSpaceCodes}

\* \s of a JavaScript regular expression, and what trim() removes.
isWhitespace(c) == c \in WhiteSpace

\* Length of the match of /^\s*/.
leadingCount(s) ==
    CHOOSE k \in 0..Len(s) :
        /\ \A i \in 1..k : isWhitespace(s[i])
        /\ k = Len(s) \/ ~isWhitespace(s[k + 1])

\* Length of the match of /\s*$/.
trailingCount(s) ==
    CHOOSE k \in 0..Len(s) :
        /\ \A i \in (Len(s) - k + 1)..Len(s) : isWhitespace(s[i])
        /\ k = Len(s) \/ ~isWhitespace(s[Len(s) - k])

\* Variant: a leading space that grows by one blank with every write.
leadingSpacePadded(s) == <<" ">> \o SubSeq(s, 1, leadingCount(s))

leadingSpace(s) == SubSeq(s, 1, leadingCount(s))

trailingSpace(s) == SubSeq(s, Len(s) - trailingCount(s) + 1, Len(s))

trim(s) ==
    IF leadingCount(s) = Len(s)
    THEN <<>>
    ELSE SubSeq(s, leadingCount(s) + 1, Len(s) - trailingCount(s))

startsWith(s, p) == Len(p) <= Len(s) /\ SubSeq(s, 1, Len(p)) = p

includes(s, p) ==
    \E i \in 1..(Len(s) - Len(p) + 1) : SubSeq(s, i, i + Len(p) - 1) = p

\* The longest run of characters outside stop that starts at index i.
runFrom(s, i, stop) ==
    LET n == CHOOSE k \in 0..(Len(s) - i + 1) :
                 /\ \A j \in i..(i + k - 1) : s[j] \notin stop
                 /\ i + k > Len(s) \/ s[i + k] \in stop
    IN  SubSeq(s, i, i + n - 1)

\* ---------------------------------------------------------- string literals
S_enabled == <<"e", "n", "a", "b", "l", "e", "d">>

S_githubToken == <<"g", "i", "t", "h", "u", "b", "T", "o", "k", "e", "n">>

S_rateLimitData == <<"r", "a", "t", "e", "L", "i", "m", "i", "t", "D", "a", "t", "a">>

S_octocat == <<"o", "c", "t", "o", "c", "a", "t">>

S_TheOctocat == <<"T", "h", "e", " ", "O", "c", "t", "o", "c", "a", "t">>

S_orgs == <<"/", "o", "r", "g", "s", "/">>

S_organizations == <<"/", "o", "r", "g", "a", "n", "i", "z", "a", "t", "i", "o", "n", "s", "/">>

S_packages == <<"/", "p", "a", "c", "k", "a", "g", "e", "s">>

S_projects == <<"/", "p", "r", "o", "j", "e", "c", "t", "s">>

S_teams == <<"/", "t", "e", "a", "m", "s">>

S_commit == <<"/", "c", "o", "m", "m", "i", "t", "/">>

S_commits == <<"/", "c", "o", "m", "m", "i", "t", "s", "/">>

S_author == <<"a", "u", "t", "h", "o", "r">>

S_users == <<"/", "u", "s", "e", "r", "s", "/">>

S_hrefOctocat == <<"/", "o", "c", "t", "o", "c", "a", "t">>

S_hrefEnabled == <<"/", "e", "n", "a", "b", "l", "e", "d">>

S_hrefMalformed == <<"/", "o", "c", "t", "o", "c", "a", "t", "%">>

S_hrefIssues ==
    <<"/", "i", "s", "s", "u", "e", "s", "?", "q", "=", "o", "c", "t", "o",
    "c", "a", "t">>

S_hrefCommit ==
    <<"/", "o", "c", "t", "o", "c", "a", "t", "/", "h", "e", "l", "l", "o",
    "/", "c", "o", "m", "m", "i", "t", "/", "1">>

S_hrefCommitsBy ==
    <<"/", "o", "c", "t", "o", "c", "a", "t", "/", "h", "e", "l", "l", "o",
    "/", "c", "o", "m", "m", "i", "t", "s", "?", "a", "u", "t", "h", "o",
    "r", "=", "o", "c", "t", "o", "c", "a", "t">>

S_Profile == <<"P", "r", "o", "f", "i", "l", "e">>

S_Octocat == <<"O", "c", "t", "o", "c", "a", "t">>

S_atOctocat == <<"@", "o", "c", "t", "o", "c", "a", "t">>

S_Maintainer == <<"M", "a", "i", "n", "t", "a", "i", "n", "e", "r">>

S_k == <<"k">>

\* The Kelvin sign, U+212A, whose lower-case mapping is k.
S_KelvinSign == codeUnits(8490)

S_hrefAuthorKelvin ==
    <<"/", "x", "?", "a", "u", "t", "h", "o", "r", "=", "%", "E", "2", "%",
    "8", "4", "%", "A", "A">>

\* /\u0391\u03A3: capital alpha, capital sigma.
S_hrefAlphaSigma == <<"/">> \o codeUnits(913) \o codeUnits(931)

\* \u03B1\u03C2: alpha, final sigma.
S_alphaFinalSigma == codeUnits(945) \o codeUnits(962)

\* \u03B1\u03C3: alpha, sigma.
S_alphaSigma == codeUnits(945) \o codeUnits(963)

S_ghp == <<"g", "h", "p", "_">>

S_githubPat == <<"g", "i", "t", "h", "u", "b", "_", "p", "a", "t", "_">>

S_ghpToken == <<"g", "h", "p", "_", "x">>

\* src/content.js:9-16
EXCLUDED_PATHS ==
    { <<"o", "r", "g", "s">>,
      <<"o", "r", "g", "a", "n", "i", "z", "a", "t", "i", "o", "n", "s">>,
      <<"p", "a", "c", "k", "a", "g", "e", "s">>,
      <<"p", "r", "o", "j", "e", "c", "t", "s">>,
      <<"t", "e", "a", "m", "s">>,
      <<"s", "e", "t", "t", "i", "n", "g", "s">>,
      <<"n", "o", "t", "i", "f", "i", "c", "a", "t", "i", "o", "n", "s">>,
      <<"i", "s", "s", "u", "e", "s">>,
      <<"p", "u", "l", "l", "s">>,
      <<"e", "x", "p", "l", "o", "r", "e">>,
      <<"t", "o", "p", "i", "c", "s">>,
      <<"t", "r", "e", "n", "d", "i", "n", "g">>,
      <<"c", "o", "l", "l", "e", "c", "t", "i", "o", "n", "s">>,
      <<"e", "v", "e", "n", "t", "s">>,
      <<"m", "a", "r", "k", "e", "t", "p", "l", "a", "c", "e">>,
      <<"s", "p", "o", "n", "s", "o", "r", "s">>,
      <<"a", "b", "o", "u", "t">>,
      <<"p", "r", "i", "c", "i", "n", "g">>,
      <<"t", "e", "a", "m">>,
      <<"e", "n", "t", "e", "r", "p", "r", "i", "s", "e">>,
      <<"c", "u", "s", "t", "o", "m", "e", "r", "-", "s", "t", "o", "r", "i", "e", "s">>,
      <<"s", "e", "c", "u", "r", "i", "t", "y">>,
      <<"f", "e", "a", "t", "u", "r", "e", "s">>,
      <<"c", "o", "d", "e", "s", "p", "a", "c", "e", "s">>,
      <<"c", "o", "p", "i", "l", "o", "t">>,
      <<"s", "e", "a", "r", "c", "h">>,
      <<"w", "a", "t", "c", "h", "i", "n", "g">>,
      <<"s", "t", "a", "r", "s">>,
      <<"n", "e", "w">>,
      <<"l", "o", "g", "i", "n">>,
      <<"l", "o", "g", "o", "u", "t">>,
      <<"s", "i", "g", "n", "u", "p">>,
      <<"j", "o", "i", "n">>,
      <<"s", "e", "s", "s", "i", "o", "n", "s">>,
      <<"c", "o", "m", "m", "u", "n", "i", "t", "y">> }

\* The alternatives of NAVIGATION_PATTERNS, src/content.js:18
NAVIGATION_WORDS ==
    { <<"o", "p", "e", "n">>,
      <<"v", "i", "e", "w">>,
      <<"e", "d", "i", "t">>,
      <<"d", "e", "l", "e", "t", "e">>,
      <<"c", "l", "o", "s", "e">>,
      <<"s", "a", "v", "e">>,
      <<"c", "a", "n", "c", "e", "l">>,
      <<"s", "u", "b", "m", "i", "t">>,
      <<"p", "a", "c", "k", "a", "g", "e", "s">>,
      <<"s", "e", "t", "t", "i", "n", "g", "s">>,
      <<"n", "o", "t", "i", "f", "i", "c", "a", "t", "i", "o", "n", "s">>,
      <<"e", "x", "p", "l", "o", "r", "e">>,
      <<"s", "e", "a", "r", "c", "h">>,
      <<"i", "s", "s", "u", "e", "s">>,
      <<"p", "u", "l", "l", " ", "r", "e", "q", "u", "e", "s", "t", "s">>,
      <<"d", "i", "s", "c", "u", "s", "s", "i", "o", "n", "s">>,
      <<"a", "c", "t", "i", "o", "n", "s">>,
      <<"p", "r", "o", "j", "e", "c", "t", "s">>,
      <<"w", "i", "k", "i">>,
      <<"s", "e", "c", "u", "r", "i", "t", "y">>,
      <<"i", "n", "s", "i", "g", "h", "t", "s">>,
      <<"n", "e", "w">>,
      <<"c", "r", "e", "a", "t", "e">>,
      <<"f", "o", "r", "k">>,
      <<"s", "t", "a", "r">>,
      <<"w", "a", "t", "c", "h">>,
      <<"c", "o", "d", "e">>,
      <<"c", "o", "m", "m", "i", "t">>,
      <<"b", "r", "a", "n", "c", "h">>,
      <<"t", "a", "g">>,
      <<"r", "e", "l", "e", "a", "s", "e">> }

\* -------------------------------------------------------------- document
\* The elements a page of up to BATCH_SIZE matching elements can hold, in
\* document order.
PageOrder ==
    <<"n1", "n2", "n3", "n4", "n5", "n6", "n7", "n8", "n9", "n10", "n11",
      "n12", "n13", "n14">>

Nodes == {PageOrder[i] : i \in 1..Len(PageOrder)}

\* The elements of a long page: the element at position k of the page is a
\* copy of n1, of n4 or of n8.
Copy(n, k) == n \o "." \o ToString(k)

HandleCopies == {Copy("n1", k) : k \in 1..MaxMatched}

MalformedCopies == {Copy("n4", k) : k \in 1..MaxMatched}

ProfileCopies == {Copy("n8", k) : k \in 1..MaxMatched}

\* The elements of a long page in document order.
LongOrder ==
    [j \in 1..(3 * MaxMatched) |->
        Copy(<<"n1", "n4", "n8">>[((j - 1) % 3) + 1], ((j - 1) \div 3) + 1)]

\* The elements in document order.
DocOrder == PageOrder \o LongOrder

\* No element: the element of a background revalidation.
NoNode == "none"

\* The markup of an element that the content script only reads: tag,
\* attributes, classes and ancestors.  avatarHref is the href of the first
\* a[data-hovercard-type="user"] inside the element's .TimelineItem ancestor
\* (Null when there is none), text the element's text nodes as the page
\* delivers them.
Markup(tag, href, classes, text) ==
    [tagName |-> tag, href |-> href, classes |-> classes, role |-> "",
     dataUser |-> Null, itemprop |-> "", hovercardType |-> "",
     hovercardUrl |-> Null, insideButton |-> FALSE, insideAvatar |-> FALSE,
     insideTimeline |-> FALSE, avatarHref |-> Null,
     text |-> <<[text |-> text, svg |-> FALSE]>>]

\* n1: <a href="/octocat" data-hovercard-type="user">octocat</a>
\* n2: <a class="user-mention" href="/octocat">@octocat</a>
\* n3: <a href="/enabled">enabled</a>
\* n4: <a href="/octocat%" data-hovercard-type="user">octocat</a>
\* n5: <a class="author" href="/octocat">octocat</a>
\* n6: <a class="assignee" href="/issues?q=octocat">octocat</a>
\* n7: <a class="user-mention" href="/octocat/hello/commit/1">octocat</a>
\* n8: <a href="/octocat" data-hovercard-type="user">Profile</a>
\* n9: <a class="commit-author"
\*        href="/octocat/hello/commits?author=octocat">Octocat</a>
\* n10: <a class="commit-author">octocat</a> inside a .TimelineItem whose
\*      avatar link is <a href="/octocat" data-hovercard-type="user">
\* n11: <a href="/octocat" data-user="octocat">Maintainer</a>
\* n12: <a href="/x?author=%E2%84%AA">k</a>
\* n13: <a href="/\u0391\u03A3" data-hovercard-type="user">\u03B1\u03C2</a>
\* n14: <a href="/\u0391\u03A3" data-hovercard-type="user">\u03B1\u03C3</a>
NodeDef ==
    [n \in Nodes \cup HandleCopies \cup MalformedCopies \cup ProfileCopies |->
        CASE n = "n1" \/ n \in HandleCopies ->
                [Markup("A", S_hrefOctocat, {}, S_octocat)
                    EXCEPT !.hovercardType = "user"]
          [] n = "n2" ->
                Markup("A", S_hrefOctocat, {"user-mention"}, S_atOctocat)
          [] n = "n3" ->
                Markup("A", S_hrefEnabled, {}, S_enabled)
          [] n = "n4" \/ n \in MalformedCopies ->
                [Markup("A", S_hrefMalformed, {}, S_octocat)
                    EXCEPT !.hovercardType = "user"]
          [] n = "n5" ->
                Markup("A", S_hrefOctocat, {"author"}, S_octocat)
          [] n = "n6" ->
                Markup("A", S_hrefIssues, {"assignee"}, S_octocat)
          [] n = "n7" ->
                Markup("A", S_hrefCommit, {"user-mention"}, S_octocat)
          [] n = "n8" \/ n \in ProfileCopies ->
                [Markup("A", S_hrefOctocat, {}, S_Profile)
                    EXCEPT !.hovercardType = "user"]
          [] n = "n9" ->
                Markup("A", S_hrefCommitsBy, {"commit-author"}, S_Octocat)
          [] n = "n10" ->
                [Markup("A", Null, {"commit-author"}, S_octocat)
                    EXCEPT !.insideTimeline = TRUE,
                           !.avatarHref = S_hrefOctocat]
          [] n = "n11" ->
                [Markup("A", S_hrefOctocat, {}, S_Maintainer)
                    EXCEPT !.dataUser = S_octocat]
          [] n = "n12" ->
                Markup("A", S_hrefAuthorKelvin, {}, S_k)
          [] n = "n13" ->
                [Markup("A", S_hrefAlphaSigma, {}, S_alphaFinalSigma)
                    EXCEPT !.hovercardType = "user"]
          [] OTHER ->
                [Markup("A", S_hrefAlphaSigma, {}, S_alphaSigma)
                    EXCEPT !.hovercardType = "user"]]

\* USERNAME_SELECTORS: the elements querySelectorAll and matches select.
matchesSelectors(m) ==
    /\ m.tagName = "A"
    /\ \/ m.hovercardType = "user"
       \/ m.hovercardUrl # Null /\ includes(m.hovercardUrl, S_users)
       \/ m.classes \cap {"user-mention", "author", "commit-author",
                          "author-link"} # {}
       \/ m.itemprop = "author"
       \/ m.href # Null /\ startsWith(m.href, <<"/">>)

RECURSIVE concatText(_)
concatText(children) ==
    IF children = <<>>
    THEN <<>>
    ELSE Head(children).text \o concatText(Tail(children))

\* element.textContent
textContent(children) == concatText(children)

\* -------------------------------------------------------------- classifier
\* Variant: a comparison that accepts every text.
textMatchesAny(text, username) == TRUE

textMatchesUsername(text, username) ==
    toLowerCase(text) = toLowerCase(username)

\* /\s\d+$/
endsWithCounter(text) ==
    \E k \in 1..(Len(text) - 1) :
        /\ \A i \in (Len(text) - k + 1)..Len(text) : text[i] \in Digits
        /\ isWhitespace(text[Len(text) - k])

\* The character c matches the ASCII character p of a regular expression
\* with the i flag and without the u flag: Canonicalize gives no character
\* outside ASCII the canonical form of an ASCII character, so c is p or the
\* upper-case letter of p.
matchesIgnoreCase(c, p) ==
    \/ c = p
    \/ c \in DOMAIN AsciiLower /\ AsciiLower[c] = p

\* NAVIGATION_PATTERNS.test(text) || /\s\d+$/.test(text)
isNavigationText(text) ==
    \/ \E w \in NAVIGATION_WORDS :
          /\ Len(w) <= Len(text)
          /\ \A i \in 1..Len(w) : matchesIgnoreCase(text[i], w[i])
          /\ Len(text) = Len(w) \/ isWhitespace(text[Len(w) + 1])
    \/ endsWithCounter(text)

isExcludedPath(href) ==
    /\ Truthy(href)
    /\ \/ startsWith(href, S_orgs)
       \/ startsWith(href, S_organizations)
       \/ includes(href, S_packages)
       \/ includes(href, S_projects)
       \/ includes(href, S_teams)

isButtonElement(m) ==
    \/ m.tagName = "BUTTON"
    \/ m.role = "button"
    \/ "btn" \in m.classes
    \/ "Button" \in m.classes
    \/ m.insideButton

\* /\/[a-f0-9]{40}/
hasHexSegment(href) ==
    \E i \in 1..(Len(href) - 40) :
        /\ href[i] = "/"
        /\ \A j \in (i + 1)..(i + 40) : href[j] \in HexLower

isCommitUrl(href) ==
    /\ Truthy(href)
    /\ \/ includes(href, S_commit)
       \/ includes(href, S_commits)
       \/ hasHexSegment(href)

isValidUsernameElement(m, text, href) ==
    /\ m.tagName \notin {"IMG", "SVG"}
    /\ Truthy(text)
    /\ ~isExcludedPath(href)
    /\ ~isButtonElement(m)
    /\ Len(text) <= MAX_USERNAME_LENGTH + 1
    /\ ~isNavigationText(text)
    /\ m.classes \cap {"avatar", "avatar-user"} = {}
    /\ ~m.insideAvatar

\* The hexadecimal digits in upper case.
HexUpper ==
    <<"0", "1", "2", "3", "4", "5", "6", "7", "8", "9", "A", "B", "C", "D", "E", "F">>

isHexChar(c) == \E i \in 1..16 : c \in {HexDigits[i], HexUpper[i]}

\* The value of a hexadecimal digit.
hexVal(c) == (CHOOSE i \in 1..16 : c \in {HexDigits[i], HexUpper[i]}) - 1

\* Index i of s starts an escape %XX.
isEscape(s, i) ==
    /\ i + 2 <= Len(s)
    /\ s[i] = "%"
    /\ isHexChar(s[i + 1])
    /\ isHexChar(s[i + 2])

\* The octet a %XX escape at index i stands for.
escapeByte(s, i) == 16 * hexVal(s[i + 1]) + hexVal(s[i + 2])

\* The length of the UTF-8 sequence that a leading octet announces, 0 for
\* an octet that starts no sequence.
octetCount(b) ==
    IF b < 128 THEN 1
    ELSE IF b \in 194..223 THEN 2
    ELSE IF b \in 224..239 THEN 3
    ELSE IF b \in 240..244 THEN 4
    ELSE 0

\* The octets of the escapes that Decode reads at index i: as many as the
\* first octet announces, <<>> when they are not all there.
octetsAt(s, i) ==
    IF ~isEscape(s, i)
    THEN <<>>
    ELSE IF \A k \in 1..(octetCount(escapeByte(s, i)) - 1) :
                isEscape(s, i + 3 * k)
    THEN [k \in 1..octetCount(escapeByte(s, i)) |->
             escapeByte(s, i + 3 * (k - 1))]
    ELSE <<>>

\* The octets are the UTF-8 encoding of one code point: no overlong form, no
\* surrogate, nothing above U+10FFFF.
isValidUTF8(o) ==
    /\ o # <<>>
    /\ \A k \in 2..Len(o) : o[k] \in 128..191
    /\ o[1] = 224 => o[2] >= 160
    /\ o[1] = 237 => o[2] <= 159
    /\ o[1] = 240 => o[2] >= 144
    /\ o[1] = 244 => o[2] <= 143

\* The code point a valid UTF-8 sequence encodes.
codePoint(o) ==
    CASE Len(o) = 1 -> o[1]
      [] Len(o) = 2 -> (o[1] - 192) * 64 + (o[2] - 128)
      [] Len(o) = 3 -> (o[1] - 224) * 4096 + (o[2] - 128) * 64 + (o[3] - 128)
      [] OTHER -> (o[1] - 240) * 262144 + (o[2] - 128) * 4096
                  + (o[3] - 128) * 64 + (o[4] - 128)

\* decodeURIComponent throws URIError from index i on: a % that does not
\* start the escapes of a valid UTF-8 sequence.
RECURSIVE malformedFrom(_, _)
malformedFrom(s, i) ==
    IF i > Len(s)
    THEN FALSE
    ELSE IF s[i] # "%"
    THEN malformedFrom(s, i + 1)
    ELSE IF ~isValidUTF8(octetsAt(s, i))
    THEN TRUE
    ELSE malformedFrom(s, i + 3 * Len(octetsAt(s, i)))

isMalformedURI(s) == malformedFrom(s, 1)

RECURSIVE decodeFrom(_, _)
decodeFrom(s, i) ==
    IF i > Len(s)
    THEN <<>>
    ELSE IF s[i] = "%"
         THEN codeUnits(codePoint(octetsAt(s, i)))
              \o decodeFrom(s, i + 3 * Len(octetsAt(s, i)))
         ELSE <<s[i]>> \o decodeFrom(s, i + 1)

\* decodeURIComponent(s) when it does not throw.
decodeURIComponent(s) == decodeFrom(s, 1)

\* What a throwing classifier call yields in place of a handle.
URIError == <<"<URIError>">>

\* decodedHref.match(/author[=:]([^+&\s]+)/): the capture of the leftmost
\* match, Null when there is none.
authorMatch(s) ==
    LET stop == {"+", "&"} \cup WhiteSpace
        at(i) == /\ SubSeq(s, i, i + 5) = S_author
                 /\ s[i + 6] \in {"=", ":"}
                 /\ s[i + 7] \notin stop
        hits == {i \in 1..(Len(s) - 7) : at(i)}
    IN  IF hits = {}
        THEN Null
        ELSE runFrom(s, (CHOOSE i \in hits : \A j \in hits : i <= j) + 7, stop)

\* href.match(/^\/([^\/\?#]+)(?:\/|$|\?|#)/): the first path segment.
pathMatch(href) ==
    IF Len(href) >= 2 /\ href[1] = "/" /\ href[2] \notin {"/", "?", "#"}
    THEN runFrom(href, 2, {"/", "?", "#"})
    ELSE Null

extractUsernameFromHref(href, text) ==
    IF ~Truthy(href) THEN Null
    ELSE IF isCommitUrl(href) THEN Null
    ELSE IF isMalformedURI(href) THEN URIError
    ELSE LET author == authorMatch(decodeURIComponent(href))
             segment == pathMatch(href)
         IN  IF author # Null /\ textMatchesUsername(text, author)
             THEN author
             ELSE IF /\ segment # Null
                     /\ toLowerCase(segment) \notin EXCLUDED_PATHS
                     /\ textMatchesUsername(text, segment)
                  THEN segment
                  ELSE Null

\* avatarHref.match(/^\/([^\/\?#]+)$/)
avatarMatch(href) ==
    IF /\ Len(href) >= 2
       /\ href[1] = "/"
       /\ \A i \in 2..Len(href) : href[i] \notin {"/", "?", "#"}
    THEN SubSeq(href, 2, Len(href))
    ELSE Null

extractUsernameFromTimelineCommit(m, text) ==
    IF "commit-author" \notin m.classes THEN Null
    ELSE IF ~Truthy(m.avatarHref) THEN Null
    ELSE LET username == avatarMatch(m.avatarHref)
         IN  IF username # Null /\ textMatchesUsername(text, username)
             THEN username
             ELSE Null

extractUsernameFromAttributes(m, text) ==
    IF Truthy(m.dataUser) THEN m.dataUser
    ELSE IF \/ "user-mention" \in m.classes
            \/ "assignee" \in m.classes
            \/ m.itemprop = "author"
         THEN IF startsWith(text, <<"@">>) THEN Tail(text) ELSE text
         ELSE Null

\* The end of extractUsername(element): the first of timelineUsername,
\* hrefUsername and the attributes' username that is truthy.
firstUsername(timelineUsername, hrefUsername, attrUsername) ==
    IF Truthy(timelineUsername) THEN timelineUsername
    ELSE IF hrefUsername = URIError THEN URIError
    ELSE IF Truthy(hrefUsername) THEN hrefUsername
    ELSE attrUsername

\* extractUsername(element) from its validation checks on, text and href
\* being its two constants.
extractUsernameOf(m, text, href) ==
    IF ~isValidUsernameElement(m, text, href) THEN Null
    ELSE IF m.insideTimeline /\ isCommitUrl(href) THEN Null
    ELSE firstUsername(IF m.insideTimeline
                       THEN extractUsernameFromTimelineCommit(m, text)
                       ELSE Null,
                       extractUsernameFromHref(href, text),
                       extractUsernameFromAttributes(m, text))

\* extractUsername(element): m is the element's markup, children its
\* current text nodes.
extractUsername(m, children) ==
    extractUsernameOf(m, trim(textContent(children)), m.href)

\* ------------------------------------------------------------------ values
\* JavaScript values held by chrome.storage.local and by isEnabled.
Undefined == [kind |-> "undefined"]

BoolV(b) == [kind |-> "bool", b |-> b]

StrV(s) == [kind |-> "string", s |-> s]

\* { name, timestamp }: a cached name, src/content.js:262-264.
EntryV(name, timestamp) ==
    [kind |-> "entry", name |-> name, timestamp |-> timestamp]

\* { limit, remaining, reset }: the rate-limit snapshot, src/content.js:245.
RateV(limit, remaining, reset) ==
    [kind |-> "rate", limit |-> limit, remaining |-> remaining,
     reset |-> reset]

\* Variant: every stored value counts as true, so the disabled branch of
\* updateElement is never taken.
truthyVAlways(v) == TRUE

\* JavaScript truthiness of a stored value.
truthyV(v) ==
    CASE v.kind = "undefined" -> FALSE
      [] v.kind = "bool" -> v.b
      [] v.kind = "string" -> v.s # <<>>
      [] OTHER -> TRUE

\* value?.name and value?.timestamp; 0 stands for an undefined timestamp
\* (both are falsy, and Date.now() is never 0).
nameOf(v) == IF v.kind = "entry" THEN v.name ELSE Null

timestampOf(v) == IF v.kind = "entry" THEN v.timestamp ELSE 0

\* parseInt(s, 10) of a header value made of decimal digits.
RECURSIVE parseInt(_)
parseInt(s) ==
    IF s = <<>>
    THEN 0
    ELSE 10 * parseInt(SubSeq(s, 1, Len(s) - 1))
         + (CHOOSE d \in 0..9 : AsciiPrintable[17 + d] = s[Len(s)])

protectedKeys == {S_enabled, S_githubToken, S_rateLimitData}

\* Variant: a Map.get that never finds the key.
cacheGetMiss(cache, k) == Null

\* Map.get, with Null for undefined, and Map.set.
cacheGet(cache, k) == IF k \in DOMAIN cache THEN cache[k] ELSE Null

cacheSet(cache, k, v) ==
    [x \in DOMAIN cache \cup {k} |-> IF x = k THEN v ELSE cache[x]]

\* Variant: an || that keeps its left operand.
orElseLeft(a, b) == a

\* a || b on strings.
orElse(a, b) == IF Truthy(a) THEN a ELSE b

\* ----------------------------------------------------------------- display
\* An element of the page: whether it is attached to the document, its text
\* nodes, its title attribute and its data-github-realnames-username
\* attribute.
Element(n) ==
    [inDoc |-> FALSE, children |-> NodeDef[n].text, title |-> Null,
     marker |-> Null]

\* getTextNodes(element): the indices of the text nodes the walker accepts.
getTextNodes(children) ==
    {i \in 1..Len(children) :
        trim(children[i].text) # <<>> /\ ~children[i].svg}

\* Variant: an isMatch that does not recognise the text of a displayed name.
isMatchHandle(textLower, usernameLower, realNameLower, isMention) ==
    \/ textLower = usernameLower
    \/ textLower = <<"@">> \o usernameLower

\* isMatch of updateElementDisplay, on the lower-cased strings.
isMatch(textLower, usernameLower, realNameLower, isMention) ==
    \/ textLower = usernameLower
    \/ textLower = <<"@">> \o usernameLower
    \/ textLower = realNameLower
    \/ isMention /\ textLower = usernameLower

\* The element after updateElementDisplay has written displayText and title:
\* textNodes are its text nodes, matches those of them that are a match.
writeDisplay(e, textNodes, matches, displayText, title) ==
    IF textNodes = {}
    THEN [e EXCEPT
            !.children = IF displayText = <<>>
                         THEN <<>>
                         ELSE <<[text |-> displayText, svg |-> FALSE]>>,
            !.title = title]
    ELSE [e EXCEPT
            !.children =
                [i \in 1..Len(e.children) |->
                    IF i \in matches
                    THEN [e.children[i] EXCEPT
                            !.text = leadingSpace(@) \o displayText
                                     \o trailingSpace(@)]
                    ELSE e.children[i]],
            !.title = IF matches # {} THEN title ELSE @]

\* Variant: an updateElementDisplay that writes nothing.
updateElementDisplayNone(e, m, username, realName, enabled) == e

\* updateElementDisplay(element, username, realName), reading isEnabled.
updateElementDisplay(e, m, username, realName, enabled) ==
    LET isMention == "user-mention" \in m.classes
        showUsername == ~truthyV(enabled) \/ realName = username
    IN  writeDisplay(
            e,
            getTextNodes(e.children),
            {i \in getTextNodes(e.children) :
                isMatch(toLowerCase(trim(e.children[i].text)),
                        toLowerCase(username), toLowerCase(realName),
                        isMention)},
            IF showUsername
            THEN IF isMention THEN <<"@">> \o username ELSE username
            ELSE realName,
            IF showUsername THEN Null ELSE <<"@">> \o username)

\* ------------------------------------------------------------------- state
VARIABLES
    isEnabled,          \* let isEnabled, src/content.js:21
    nameCache,          \* const nameCache = new Map(), src/content.js:22
    processedElements,  \* let processedElements = new WeakSet()
    dom,                \* the elements of the page
    observing,          \* setupObserver() has run
    pendingElements,    \* the observer's pending set
    debounceTimer,      \* the observer's debounce timer is armed
    init,               \* the position of init() and what its await returns
    storage,            \* chrome.storage.local
    storeUp,            \* chrome.storage.local answers calls
    tasks,              \* the suspended updateElement / fetchRealName calls
    messages,           \* messages sent by the popup, not yet handled
    purge,              \* the position of the clearOldCache alarm handler
    now,                \* Date.now()
    rejected,           \* the async functions that ended in a rejection
    returns,            \* the fetchRealName calls that have ended
    events,             \* the events of the environment so far
    scope,              \* what the environment does in this behaviour
    acks,               \* the responses the onMessage listener has sent
    burst,              \* the notifications the armed timer has absorbed
    scan,               \* a processPage() call over a long page
    popup,              \* the popup: its switch and its suspended handlers
    body                \* document.body exists

vars ==
    <<isEnabled, nameCache, processedElements, dom, observing,
      pendingElements, debounceTimer, init, storage, storeUp, tasks,
      messages, purge, now, rejected, returns, events, scope, acks,
      burst, scan, popup, body>>

\* The page, the observer and the message queue.
pageVars == <<dom, processedElements, observing, pendingElements,
              debounceTimer, burst>>

\* Date.now() when the content script is loaded.
StartTime == 8 * 24 * HOUR_MS

\* ----------------------------------------------------------------- storage
EmptyMap == [k \in {} |-> Undefined]

mapSet(map, k, v) ==
    [x \in DOMAIN map \cup {k} |-> IF x = k THEN v ELSE map[x]]

mapRemove(map, keys) == [x \in DOMAIN map \ keys |-> map[x]]

\* What a chrome.storage.local call issued now resolves to: the value of a
\* get(key), or a rejection while the store is unavailable.
storageGet(key) ==
    [ok |-> storeUp,
     value |-> IF storeUp /\ key \in DOMAIN storage
               THEN storage[key]
               ELSE Undefined]

\* Variant: a set that writes nothing.
storageSetDropped(store, key, value) == store

\* The store after a set({[key]: value}) issued now, and what the call
\* resolves to.
storageSet(store, key, value) ==
    IF storeUp THEN mapSet(store, key, value) ELSE store

setResult == [ok |-> storeUp, value |-> Undefined]

\* ------------------------------------------------------------------- tasks
\* A suspended call of updateElement(el) (el an element) or of the
\* background fetchRealName(username, true) (el = NoNode): the await it is
\* at, what the awaited storage call resolves to, the response it holds and
\* the name it is about to return.
NoHeaders == [limit |-> Null, remaining |-> Null, reset |-> Null]

NoResp ==
    [status |-> 0, headers |-> NoHeaders, body |-> "none", name |-> Null]

\* lookup is what the call knows of its remote lookup: "none" until the
\* lookup has answered, then "ok" or "failed".
Task(el, username, pc, got) ==
    [el |-> el, username |-> username, pc |-> pc, got |-> got,
     resp |-> NoResp, val |-> Null, lookup |-> "none"]

\* ------------------------------------------------------------------ remote
\* The name field of GET /users/{username}: octocat has a display name,
\* every other account has none.
RemoteName(username) ==
    IF username = S_octocat THEN S_TheOctocat ELSE Null

\* X-RateLimit-Limit, -Remaining and -Reset of a response.
RateHeaders ==
    [limit |-> <<"6", "0">>, remaining |-> <<"0">>,
     reset |-> <<"1", "7", "0", "0", "0", "0", "3", "6", "0", "0">>]

\* Variant: the snapshot is never written.
hasRateLimitNever(headers) == FALSE

\* if (rateLimitLimit && rateLimitRemaining && rateLimitReset)
hasRateLimit(headers) ==
    /\ Truthy(headers.limit)
    /\ Truthy(headers.remaining)
    /\ Truthy(headers.reset)

\* The rateLimitData value fetchRealName builds from the headers.
rateLimitData(headers) ==
    RateV(parseInt(headers.limit), parseInt(headers.remaining),
          parseInt(headers.reset))

\* What await fetch(...) can produce for a handle: a rejection, or a
\* response of api.github.com, which carries the rate-limit headers: a
\* refusal, or a success whose body parses or not.  The name field of a
\* body that parses is the account's name, or the empty string.
Outcomes(username) ==
    {[status |-> 0, headers |-> NoHeaders, body |-> "networkError",
      name |-> Null],
     [status |-> 403, headers |-> RateHeaders, body |-> "json", name |-> Null],
     [status |-> 200, headers |-> RateHeaders, body |-> "json",
      name |-> RemoteName(username)],
     [status |-> 200, headers |-> RateHeaders, body |-> "json", name |-> <<>>],
     [status |-> 200, headers |-> RateHeaders, body |-> "malformed", name |-> Null]}

\* ---------------------------------------------------------------- resolver
\* What resuming a task does: the memory tier, the durable tier and the
\* page after it, the tasks that take the resumed task's place, the async
\* functions that ended in a rejection and the fetchRealName calls that
\* ended.
Effect(cache, store, d, next, rejects, ended) ==
    [cache |-> cache, store |-> store, dom |-> d, next |-> next,
     rejects |-> rejects, ended |-> ended]

NoGot == [ok |-> TRUE, value |-> Undefined]

\* What a rejected fetchRealName call ends with.
Rejected == <<"<rejected>">>

\* A fetchRealName call that has ended: its argument, what its remote lookup
\* did, and the value it returned (Rejected when it threw).
Return(t, value) ==
    [username |-> t.username, lookup |-> t.lookup, value |-> value]

\* realName = await fetchRealName(username); updateElementDisplay(element,
\* username, realName): the value a finished fetchRealName hands to its
\* caller.  The background revalidation has no caller.
returnTo(t, value) ==
    Effect(nameCache, storage,
           IF t.el = NoNode
           THEN dom
           ELSE [dom EXCEPT ![t.el] =
                    updateElementDisplay(@, NodeDef[t.el], t.username, value,
                                         isEnabled)],
           {}, {}, {Return(t, value)})

\* The catch block of fetchRealName, up to its await.
catchBlock(t) ==
    Effect(cacheSet(nameCache, t.username, t.username),
           storageSet(storage, t.username, EntryV(t.username, now)),
           dom,
           {[t EXCEPT !.pc = "catchWrite", !.got = setResult,
                      !.resp = NoResp, !.val = Null]},
           {}, {})

\* fetchRealName(username, skipCache), up to its first await: it returns at
\* once (done) or suspends at the credential read.
fetchRealName(el, username, skipCache) ==
    IF ~Truthy(username)
    THEN [done |-> TRUE, value |-> Null, task |-> {}]
    ELSE IF ~skipCache /\ username \in DOMAIN nameCache
    THEN [done |-> TRUE, value |-> nameCache[username], task |-> {}]
    ELSE [done |-> FALSE, value |-> Null,
          task |-> {Task(el, username, "tokenRead",
                         storageGet(S_githubToken))}]

\* Variant: a revalidateIfStale whose threshold is inclusive.
revalidateIfStaleInclusive(username, timestamp) ==
    IF now - timestamp >= REVALIDATE_AGE_MS
    THEN fetchRealName(NoNode, username, TRUE).task
    ELSE {}

\* revalidateIfStale(username, timestamp): the background lookups it starts.
revalidateIfStale(username, timestamp) ==
    IF now - timestamp > REVALIDATE_AGE_MS
    THEN fetchRealName(NoNode, username, TRUE).task
    ELSE {}

\* Variant: a revalidation that is started whatever the age of the entry.
revalidationAlways(username, stored) ==
    fetchRealName(NoNode, username, TRUE).task

\* if (stored[username]?.timestamp) revalidateIfStale(...)
revalidation(username, stored) ==
    IF timestampOf(stored) # 0
    THEN revalidateIfStale(username, timestampOf(stored))
    ELSE {}

\* updateElement resumed after `await chrome.storage.local.get(username)` on
\* the cache-hit path.
hitReadDone(t) ==
    IF ~t.got.ok
    THEN Effect(nameCache, storage, dom, {}, {"updateElement"}, {})
    ELSE Effect(nameCache, storage, dom,
                revalidation(t.username, t.got.value), {}, {})

\* updateElement resumed after `await chrome.storage.local.get(username)` on
\* the cache-miss path.
missReadDone(t) ==
    LET stored == t.got.value
        call == fetchRealName(t.el, t.username, FALSE)
    IN  IF ~t.got.ok
        THEN Effect(nameCache, storage, dom, {}, {"updateElement"}, {})
        ELSE IF Truthy(nameOf(stored))
        THEN Effect(cacheSet(nameCache, t.username, nameOf(stored)),
                    storage,
                    [dom EXCEPT ![t.el] =
                        updateElementDisplay(@, NodeDef[t.el], t.username,
                                             nameOf(stored), isEnabled)],
                    revalidation(t.username, stored), {}, {})
        ELSE IF call.done
        THEN returnTo(t, call.value)
        ELSE Effect(nameCache, storage, dom, call.task, {}, {})

\* fetchRealName resumed after the credential read: the lookup is issued.
tokenReadDone(t) ==
    IF ~t.got.ok
    THEN catchBlock(t)
    ELSE Effect(nameCache, storage, dom,
                {[t EXCEPT !.pc = "fetching", !.got = NoGot]}, {}, {})

\* fetchRealName from `if (!response.ok)` to its next await.
afterHeaders(t, r) ==
    IF r.status \notin 200..299
    THEN Effect(cacheSet(nameCache, t.username, t.username),
                storageSet(storage, t.username, EntryV(t.username, now)),
                dom,
                {[t EXCEPT !.pc = "failWrite", !.got = setResult,
                           !.resp = NoResp, !.lookup = "failed"]},
                {}, {})
    ELSE Effect(nameCache, storage, dom,
                {[t EXCEPT !.pc = "json", !.got = NoGot, !.resp = r]},
                {}, {})

\* fetchRealName resumed after `await fetch(...)` with outcome r.
fetchDone(t, r) ==
    IF r.body = "networkError"
    THEN catchBlock([t EXCEPT !.lookup = "failed"])
    ELSE IF hasRateLimit(r.headers)
    THEN Effect(nameCache,
                storageSet(storage, S_rateLimitData,
                           rateLimitData(r.headers)),
                dom,
                {[t EXCEPT !.pc = "rateWrite", !.got = setResult,
                           !.resp = r]},
                {}, {})
    ELSE afterHeaders(t, r)

\* fetchRealName resumed after the rate-limit snapshot write.
rateWriteDone(t) ==
    IF ~t.got.ok THEN catchBlock(t) ELSE afterHeaders(t, t.resp)

\* fetchRealName resumed after `await response.json()`.
jsonDone(t) ==
    LET realName == orElse(t.resp.name, t.username)
    IN  IF t.resp.body = "malformed"
        THEN catchBlock([t EXCEPT !.lookup = "failed"])
        ELSE Effect(cacheSet(nameCache, t.username, realName),
                    storageSet(storage, t.username, EntryV(realName, now)),
                    dom,
                    {[t EXCEPT !.pc = "okWrite", !.got = setResult,
                               !.resp = NoResp, !.val = realName,
                               !.lookup = "ok"]},
                    {}, {})

\* fetchRealName resumed after the durable write of a resolved name.
okWriteDone(t) ==
    IF ~t.got.ok THEN catchBlock(t) ELSE returnTo(t, t.val)

\* fetchRealName resumed after the durable write of a failed lookup.
failWriteDone(t) ==
    IF ~t.got.ok THEN catchBlock(t) ELSE returnTo(t, t.username)

\* fetchRealName resumed after the durable write of its catch block: a
\* failed write rejects fetchRealName, and updateElement with it; the
\* background revalidation catches the rejection.
catchWriteDone(t) ==
    IF ~t.got.ok
    THEN Effect(nameCache, storage, dom, {},
                {"fetchRealName"}
                \cup (IF t.el = NoNode THEN {} ELSE {"updateElement"}),
                {Return(t, Rejected)})
    ELSE returnTo(t, t.username)

\* ---------------------------------------------------------------- pipeline
\* What a call of updateElement(element) leaves when it reaches its first
\* await or returns: the element, whether processedElements holds it, the
\* task left suspended (at most one) and whether the call threw.
Updated(elem, isMarked, task, threw) ==
    [elem |-> elem, marked |-> isMarked, task |-> task, threw |-> threw]

\* updateElement(element) once extractUsername(element) has returned
\* username (it is not called for an element of processedElements).  The
\* three calls of updateElementDisplay before the first await differ in
\* their arguments only.
updateElementOf(n, e, isProcessed, enabled, cache, username) ==
    LET hit == truthyV(enabled) /\ Truthy(cacheGet(cache, username))
    IN  IF isProcessed /\ ~Truthy(e.marker)
        THEN Updated(e, TRUE, {}, FALSE)
        ELSE IF ~isProcessed /\ username = URIError
        THEN Updated(e, FALSE, {}, TRUE)
        ELSE IF ~isProcessed /\ ~Truthy(username)
        THEN Updated(e, FALSE, {}, FALSE)
        ELSE Updated(
                updateElementDisplay(
                    IF isProcessed THEN e ELSE [e EXCEPT !.marker = username],
                    NodeDef[n],
                    IF isProcessed THEN e.marker ELSE username,
                    IF isProcessed
                    THEN orElse(cacheGet(cache, e.marker), e.marker)
                    ELSE IF hit THEN cacheGet(cache, username) ELSE username,
                    enabled),
                TRUE,
                IF isProcessed \/ ~truthyV(enabled)
                THEN {}
                ELSE {Task(n, username,
                           IF hit THEN "hitRead" ELSE "missRead",
                           storageGet(username))},
                FALSE)

\* Variant: an updateElement that ignores the processed set.
updateElementUnmarked(n, e, isProcessed, enabled, cache) ==
    updateElementOf(n, e, FALSE, enabled, cache,
                    extractUsername(NodeDef[n], e.children))

\* updateElement(element), up to its first await.  e is the element,
\* isProcessed whether processedElements holds it, enabled and cache the
\* values of isEnabled and nameCache the call reads.
updateElement(n, e, isProcessed, enabled, cache) ==
    updateElementOf(n, e, isProcessed, enabled, cache,
                    IF isProcessed
                    THEN Null
                    ELSE extractUsername(NodeDef[n], e.children))

\* What the calls of a forEach leave together: results holds the result r
\* of updateElement for each element n of S.
gather(S, d, processed, results) ==
    [dom |-> [n \in DOMAIN d |->
                 IF n \in S
                 THEN (CHOOSE x \in results : x.n = n).r.elem
                 ELSE d[n]],
     processed |-> processed \cup {x.n : x \in {y \in results : y.r.marked}},
     spawn |-> UNION {x.r.task : x \in results},
     rejects |-> IF \E x \in results : x.r.threw
                 THEN {"updateElement"}
                 ELSE {}]

\* Variant: a forEach that calls updateElement for no element.
forEachUpdateElementNone(S, d, processed, enabled, cache) ==
    gather({}, d, processed, {})

\* Variant: a forEach that leaves out the mentions.
forEachUpdateElementPlain(S, d, processed, enabled, cache) ==
    gather({n \in S : "user-mention" \notin NodeDef[n].classes}, d,
           processed,
           {[n |-> n,
             r |-> updateElement(n, d[n], n \in processed, enabled, cache)] :
                n \in {x \in S : "user-mention" \notin NodeDef[x].classes}})

\* elements.forEach(el => updateElement(el)) over the elements S: the page,
\* processedElements, the suspended tasks and the rejections it leaves.
\* The calls touch one element each and run to their first await in turn.
forEachUpdateElement(S, d, processed, enabled, cache) ==
    gather(S, d, processed,
           {[n |-> n,
             r |-> updateElement(n, d[n], n \in processed, enabled, cache)] :
                n \in S})

\* document.querySelectorAll(USERNAME_SELECTORS), in document order.
querySelectorAll(d) ==
    SelectSeq(DocOrder,
              LAMBDA n : /\ n \in DOMAIN d
                         /\ d[n].inDoc
                         /\ matchesSelectors(NodeDef[n]))

\* elementsArray.slice(0, BATCH_SIZE)
firstBatch(elements) ==
    {elements[i] : i \in 1..(IF Len(elements) < BATCH_SIZE
                             THEN Len(elements)
                             ELSE BATCH_SIZE)}

\* No processPage() call over a long page is followed: elements is its
\* elementsArray, i its loop variable, batches the batches it has
\* dispatched and yields the awaits it has reached.
NoScan ==
    [pc |-> "none", elements |-> <<>>, i |-> 0, batches |-> <<>>,
     yields |-> 0]

\* elementsArray.slice(i, i + BATCH_SIZE)
slice(elements, i) ==
    [k \in 1..(IF i + BATCH_SIZE < Len(elements)
               THEN BATCH_SIZE
               ELSE IF i < Len(elements) THEN Len(elements) - i ELSE 0) |->
        elements[i + k]]

\* Variant: a loop that yields after its last batch too.
moreBatchesInclusive(length, i) == i + BATCH_SIZE <= length

\* if (i + BATCH_SIZE < elementsArray.length)
moreBatches(length, i) == i + BATCH_SIZE < length

\* The for loop of processPage from its test `i < elementsArray.length` to
\* its next await or its end: the batch is dispatched, and the loop yields
\* when more elements remain.
iterate(s) ==
    IF s.i < Len(s.elements)
    THEN [s EXCEPT
            !.batches = Append(@, slice(s.elements, s.i)),
            !.yields = IF moreBatches(Len(s.elements), s.i)
                       THEN @ + 1
                       ELSE @,
            !.pc = IF moreBatches(Len(s.elements), s.i)
                   THEN "yield"
                   ELSE "done"]
    ELSE [s EXCEPT !.pc = "done"]

\* processPage(): the first batch is dispatched before the function yields.
\* The page of the model holds at most BATCH_SIZE matching elements, so the
\* first batch is the only one and processPage returns without yielding.
processPage(d, processed, enabled, cache) ==
    forEachUpdateElement(firstBatch(querySelectorAll(d)), d, processed,
                         enabled, cache)

\* toggleDisplay(): every element that carries the marker attribute is
\* rendered from the memory tier, then the page is processed.
toggleDisplay(d, processed, enabled, cache) ==
    LET toggled ==
            [n \in DOMAIN d |->
                IF d[n].inDoc /\ d[n].marker # Null
                THEN updateElementDisplay(d[n], NodeDef[n], d[n].marker,
                         orElse(cacheGet(cache, d[n].marker), d[n].marker),
                         enabled)
                ELSE d[n]]
    IN  processPage(toggled, processed, enabled, cache)

\* preloadCache(): the memory tier after the for-in loop over items.
preloadCache(cache, items) ==
    LET keys == {k \in DOMAIN items :
                    k \notin protectedKeys /\ Truthy(nameOf(items[k]))}
    IN  [k \in DOMAIN cache \cup keys |->
            IF k \in keys THEN nameOf(items[k]) ELSE cache[k]]

\* The keys the clearOldCache alarm handler collects from items.
keysToRemove(items) ==
    {k \in DOMAIN items :
        /\ k \notin protectedKeys
        /\ items[k].kind \in {"entry", "rate"}
        /\ timestampOf(items[k]) # 0
        /\ now - timestampOf(items[k]) > CACHE_MAX_AGE_MS}

\* --------------------------------------------------------------- debounce
\* The burst the debounce timer is armed for: how many notifications of the
\* observer it has absorbed, and whether DEBOUNCE_DELAY (100 ms) has elapsed
\* since the last of them.  There is no burst while the timer is idle.
NoBurst == [notifications |-> 0, elapsed |-> FALSE]

\* clearTimeout(debounceTimer); debounceTimer = setTimeout(
\* processPendingElements, DEBOUNCE_DELAY): a notification that arrives
\* before the delay has elapsed joins the burst, a later one starts a burst;
\* the delay starts again.
rearm(armed, b) ==
    [notifications |-> IF armed /\ ~b.elapsed
                       THEN b.notifications + 1
                       ELSE 1,
     elapsed |-> FALSE]

\* The popup before it is opened: its switch, the clicks made in it and its
\* suspended handlers.
NoPopup ==
    [pc |-> "closed", checked |-> FALSE, clicks |-> 0, handlers |-> {}]

\* The durable store the content script can find when it is loaded: the
\* enabled flag absent (onInstalled stores it on install only) or set, and
\* octocat absent or cached 24 hours ago, or more than 7 days ago.
InitialStores ==
    {[k \in (IF en = Undefined THEN {} ELSE {S_enabled})
            \cup (IF entry = Undefined THEN {} ELSE {S_octocat}) |->
        IF k = S_enabled THEN en ELSE entry] :
        en \in {Undefined, BoolV(TRUE), BoolV(FALSE)},
        entry \in {Undefined,
                   EntryV(S_TheOctocat, StartTime - REVALIDATE_AGE_MS),
                   EntryV(S_TheOctocat,
                          StartTime - CACHE_MAX_AGE_MS - HOUR_MS)}}

\* The content script has just been loaded in a tab whose durable store is
\* one of stores: init() is suspended at its read of the enabled flag, the
\* page is still empty and the popup closed.  The page will attach the
\* elements of page, the environment produces at most maxEvents events, the
\* user clicks at most maxEvents times in the popup, at most maxTasks tasks
\* are suspended at the same time, and the markup of the popup has its
\* switch in one of the states of switch.
Loaded(stores, page, maxTasks, maxEvents, switch) ==
    /\ isEnabled = BoolV(TRUE)
    /\ nameCache = EmptyMap
    /\ processedElements = {}
    /\ dom = [n \in Nodes |-> Element(n)]
    /\ observing = FALSE
    /\ pendingElements = {}
    /\ debounceTimer = FALSE
    /\ storage \in stores
    /\ storeUp = TRUE
    /\ init = [pc |-> "enabled",
               got |-> [ok |-> TRUE,
                        value |-> IF S_enabled \in DOMAIN storage
                                  THEN storage[S_enabled]
                                  ELSE Undefined],
               items |-> EmptyMap]
    /\ tasks = EmptyBag
    /\ messages = <<>>
    /\ purge = [pc |-> "idle", ok |-> TRUE, items |-> EmptyMap]
    /\ now = StartTime
    /\ rejected = {}
    /\ returns = {}
    /\ events = 0
    /\ scope = [page |-> page, tasks |-> maxTasks, events |-> maxEvents,
                clicks |-> maxEvents, switch |-> switch]
    /\ acks = <<>>
    /\ burst = NoBurst
    /\ scan = NoScan
    /\ popup = NoPopup

\* The content script is loaded when the document has its <body>; the switch
\* of the popup is unchecked in its markup.
Start(stores, page, maxTasks, maxEvents) ==
    /\ Loaded(stores, page, maxTasks, maxEvents, {FALSE})
    /\ body = TRUE

\* The elements whose href is well formed, one for each form of link (n5,
\* a second plain link to octocat, is attached in SpecBatch only, and n6 to
\* n14 in the specifications that name them).
WellFormed ==
    {n \in {"n1", "n2", "n3", "n4"} : ~isMalformedURI(NodeDef[n].href)}

\* The content script is loaded at document_start or later: the document has
\* its <body> or not yet.  The page has a plain link to octocat, and the
\* markup of the popup has its switch checked or not.
Init ==
    /\ Loaded(InitialStores, {"n1"}, MaxTasks, MaxEvents, BOOLEAN)
    /\ body \in BOOLEAN

\* ----------------------------------------------------------------- actions
\* The elements of the document d whose children a run of the content
\* script has replaced: element.textContent = ..., the fallback of
\* updateElementDisplay for an element without a text node to write to.
childListWritten(d, e) ==
    {n \in DOMAIN d :
        /\ d[n].inDoc
        /\ getTextNodes(d[n].children) = {}
        /\ e[n].children # d[n].children}

\* The observer after a run that took the page from d to e, the timer being
\* armed (or not) for the burst b: its mutation records hold text nodes
\* only, so nothing is collected, but the callback re-arms the timer.
Notify(d, e, armed, b) ==
    IF observing /\ childListWritten(d, e) # {}
    THEN /\ debounceTimer' = TRUE
         /\ burst' = rearm(armed, b)
    ELSE /\ debounceTimer' = armed
         /\ burst' = b

\* A suspended task t resumes and runs to its next await.
Resume(t, eff) ==
    /\ nameCache' = eff.cache
    /\ storage' = eff.store
    /\ dom' = eff.dom
    /\ tasks' = (tasks (-) SetToBag({t})) (+) SetToBag(eff.next)
    /\ BagCardinality(tasks') <= scope.tasks
    /\ rejected' = rejected \cup eff.rejects
    /\ returns' = returns \cup eff.ended
    /\ Notify(dom, eff.dom, debounceTimer, burst)
    /\ UNCHANGED <<isEnabled, processedElements, observing, pendingElements,
                   init, storeUp, messages, purge, now, events, scope, scan,
                   popup, body, acks>>

HitReadDone ==
    \E t \in BagToSet(tasks) :
        /\ t.pc = "hitRead"
        /\ \E eff \in {hitReadDone(t)} : Resume(t, eff)

MissReadDone ==
    \E t \in BagToSet(tasks) :
        /\ t.pc = "missRead"
        /\ \E eff \in {missReadDone(t)} : Resume(t, eff)

TokenReadDone ==
    \E t \in BagToSet(tasks) :
        /\ t.pc = "tokenRead"
        /\ \E eff \in {tokenReadDone(t)} : Resume(t, eff)

FetchDone ==
    \E t \in BagToSet(tasks) :
        /\ t.pc = "fetching"
        /\ \E r \in Outcomes(t.username) :
              \E eff \in {fetchDone(t, r)} : Resume(t, eff)

RateWriteDone ==
    \E t \in BagToSet(tasks) :
        /\ t.pc = "rateWrite"
        /\ \E eff \in {rateWriteDone(t)} : Resume(t, eff)

JsonDone ==
    \E t \in BagToSet(tasks) :
        /\ t.pc = "json"
        /\ \E eff \in {jsonDone(t)} : Resume(t, eff)

OkWriteDone ==
    \E t \in BagToSet(tasks) :
        /\ t.pc = "okWrite"
        /\ \E eff \in {okWriteDone(t)} : Resume(t, eff)

FailWriteDone ==
    \E t \in BagToSet(tasks) :
        /\ t.pc = "failWrite"
        /\ \E eff \in {failWriteDone(t)} : Resume(t, eff)

CatchWriteDone ==
    \E t \in BagToSet(tasks) :
        /\ t.pc = "catchWrite"
        /\ \E eff \in {catchWriteDone(t)} : Resume(t, eff)

\* A synchronous run of the content script that dispatches elements: the
\* page, processedElements, the suspended tasks and the debounce timer
\* after it, the timer being armed (or not) for the burst b when the
\* elements are dispatched.
DispatchFrom(r, armed, b) ==
    /\ dom' = r.dom
    /\ processedElements' = r.processed
    /\ tasks' = tasks (+) SetToBag(r.spawn)
    /\ BagCardinality(tasks') <= scope.tasks
    /\ rejected' = rejected \cup r.rejects
    /\ Notify(dom, r.dom, armed, b)

Dispatch(r) == DispatchFrom(r, debounceTimer, burst)

\* init() resumes after `await chrome.storage.local.get('enabled')` and
\* calls preloadCache(), which suspends at its get(null).
InitReadDone ==
    /\ init.pc = "enabled"
    /\ IF init.got.ok
       THEN /\ isEnabled' = IF init.got.value = Undefined
                            THEN BoolV(TRUE)
                            ELSE init.got.value
            /\ init' = [pc |-> "preload",
                        got |-> [ok |-> storeUp, value |-> Undefined],
                        items |-> IF storeUp THEN storage ELSE EmptyMap]
            /\ UNCHANGED rejected
       ELSE /\ init' = [pc |-> "failed", got |-> NoGot, items |-> EmptyMap]
            /\ rejected' = rejected \cup {"init"}
            /\ UNCHANGED isEnabled
    /\ UNCHANGED <<nameCache, pageVars, storage, storeUp, tasks, messages,
                   purge, now, events, returns, scope, scan, popup, body, acks>>

\* preloadCache() resumes, fills the memory tier and returns; init() sets up
\* the observer and schedules the first processPage(), or waits for the
\* <body> when the document has none.
PreloadDone ==
    /\ init.pc = "preload"
    /\ nameCache' = IF init.got.ok
                    THEN preloadCache(nameCache, init.items)
                    ELSE nameCache
    /\ observing' = body
    /\ init' = [pc |-> IF body THEN "timer" ELSE "body", got |-> NoGot,
                items |-> EmptyMap]
    /\ UNCHANGED <<isEnabled, processedElements, dom, pendingElements,
                   debounceTimer, burst, storage, storeUp, tasks, messages,
                   purge, now, rejected, events, returns, scope, scan, popup,
                   body, acks>>

\* The parser attaches the <body>, with the elements S in it; the
\* bodyObserver of init(), when it is waiting, then sets up the observer and
\* schedules the first processPage().
BodyAttached ==
    /\ ~body
    /\ body' = TRUE
    /\ \E S \in SUBSET scope.page :
          dom' = [n \in DOMAIN dom |->
                     IF n \in S THEN [dom[n] EXCEPT !.inDoc = TRUE]
                     ELSE dom[n]]
    /\ IF init.pc = "body"
       THEN /\ observing' = TRUE
            /\ init' = [init EXCEPT !.pc = "timer"]
       ELSE UNCHANGED <<observing, init>>
    /\ UNCHANGED <<isEnabled, nameCache, processedElements, pendingElements,
                   debounceTimer, burst, storage, storeUp, tasks, messages,
                   purge, now, rejected, events, returns, scope, scan, popup,
                   acks>>

\* setTimeout(() => processPage(), INITIAL_DELAY) fires.
InitialScan ==
    /\ init.pc = "timer"
    /\ init' = [init EXCEPT !.pc = "done"]
    /\ \E r \in {processPage(dom, processedElements, isEnabled, nameCache)} :
          Dispatch(r)
    /\ UNCHANGED <<isEnabled, nameCache, observing, pendingElements,
                   storage, storeUp, messages, purge, now, events, returns,
                   scope, scan, popup, body, acks>>

\* The page attaches the elements S; the observer, once set up, collects
\* those that match USERNAME_SELECTORS and re-arms its debounce timer.
Mutation ==
    \E S \in SUBSET {n \in scope.page : ~dom[n].inDoc} :
        /\ body
        /\ S # {}
        /\ dom' = [n \in DOMAIN dom |->
                      IF n \in S THEN [dom[n] EXCEPT !.inDoc = TRUE]
                      ELSE dom[n]]
        /\ IF observing
           THEN /\ pendingElements' =
                       pendingElements
                       \cup {n \in S : matchesSelectors(NodeDef[n])}
                /\ debounceTimer' = TRUE
                /\ burst' = rearm(debounceTimer, burst)
           ELSE UNCHANGED <<pendingElements, debounceTimer, burst>>
        /\ UNCHANGED <<isEnabled, nameCache, processedElements, observing,
                       init, storage, storeUp, tasks, messages, purge, now,
                       rejected, events, returns, scope, scan, popup, body, acks>>

\* DEBOUNCE_DELAY elapses with no further notification: the timer is due.
DebounceDelay ==
    /\ debounceTimer
    /\ ~burst.elapsed
    /\ burst' = [burst EXCEPT !.elapsed = TRUE]
    /\ UNCHANGED <<isEnabled, nameCache, dom, processedElements, observing,
                   pendingElements, debounceTimer, init, storage, storeUp,
                   tasks, messages, purge, now, rejected, events, returns,
                   scope, scan, popup, body, acks>>

\* The debounce timer fires: processPendingElements().
DebounceFire ==
    /\ debounceTimer
    /\ burst.elapsed
    /\ pendingElements' = {}
    /\ \E r \in {forEachUpdateElement(pendingElements, dom,
                                        processedElements, isEnabled,
                                        nameCache)} :
          DispatchFrom(r, FALSE, NoBurst)
    /\ UNCHANGED <<isEnabled, nameCache, observing, init, storage, storeUp,
                   messages, purge, now, events, returns, scope, scan, popup,
                   body, acks>>

\* ------------------------------------------------------------------- popup
\* The store after clear() and after set(items), issued now.
storageClear(store) == IF storeUp THEN EmptyMap ELSE store

storageSetAll(store, items) ==
    IF storeUp
    THEN [k \in DOMAIN store \cup DOMAIN items |->
             IF k \in DOMAIN items THEN items[k] ELSE store[k]]
    ELSE store

\* What the token field of the popup can hold when Save is clicked: a
\* token, a text that is none, and the bullets shown for a stored token.
TokenInputs ==
    {S_ghpToken, <<" ">> \o S_ghpToken, S_octocat,
     [i \in 1..20 |-> fromCharCode(8226)]}

\* The checks of the Save handler on the trimmed input.
isValidToken(token) ==
    /\ Truthy(token)
    /\ token # [i \in 1..20 |-> fromCharCode(8226)]
    /\ startsWith(token, S_ghp) \/ startsWith(token, S_githubPat)

\* A handler of the popup suspended at an await: the control it belongs to,
\* the await it is at and whether the awaited call succeeds, the flag and
\* the token it holds, and the message it waits the response of.
Handler(kind, pc, enabled, token) ==
    [id |-> popup.clicks + 1, kind |-> kind, pc |-> pc, ok |-> storeUp,
     enabled |-> enabled, token |-> token, wait |-> 0]

\* { enabled, githubToken } as the handler h stores it: a property whose
\* value is undefined is not stored.
kept(h) ==
    [k \in (IF h.enabled = Undefined THEN {} ELSE {S_enabled})
           \cup (IF h.token = Undefined THEN {} ELSE {S_githubToken}) |->
        IF k = S_enabled THEN h.enabled ELSE h.token]

\* The message a handler sends to the tab.
messageOf(h) ==
    IF h.kind = "toggle"
    THEN [action |-> "toggle", enabled |-> h.enabled.b]
    ELSE [action |-> "refreshCache", enabled |-> FALSE]

\* A step of the popup: the popup, the store, the messages in flight and
\* the rejections after it.
PopupStep(p, store, sent, rejects) ==
    /\ popup' = p
    /\ storage' = store
    /\ messages' = sent
    /\ rejected' = rejected \cup rejects
    /\ UNCHANGED <<isEnabled, nameCache, pageVars, init, storeUp, tasks,
                   purge, now, returns, events, scope, scan, body, acks>>

\* The popup with one more click, which leaves the handlers hs suspended.
Clicked(p, hs) ==
    [p EXCEPT !.clicks = @ + 1, !.handlers = @ \cup hs]

\* The handler h of the popup resumes: it goes on as g and the store is
\* left as store, or it ends in a rejection when the call it awaited failed.
Proceed(h, g, store) ==
    IF h.ok
    THEN PopupStep([popup EXCEPT !.handlers = (@ \ {h}) \cup {g}], store,
                   messages, {})
    ELSE PopupStep([popup EXCEPT !.handlers = @ \ {h}], storage, messages,
                   {h.kind})

\* The popup is opened: popup.js registers the listeners of the controls
\* and calls loadState(), which suspends at its read of the flag.  The switch
\* is checked or not as the markup of the popup (popup.html) has it.
PopupOpen ==
    /\ popup.pc = "closed"
    /\ events < scope.events
    /\ events' = events + 1
    /\ \E checked \in scope.switch :
          popup' = [popup EXCEPT
                      !.pc = "open",
                      !.checked = checked,
                      !.handlers =
                          {[Handler("loadState", "load",
                                    storageGet(S_enabled).value, Undefined)
                               EXCEPT !.id = 0]}]
    /\ UNCHANGED <<isEnabled, nameCache, pageVars, init, storage, storeUp,
                   tasks, messages, purge, now, rejected, returns, scope,
                   scan, body, acks>>

\* loadState() resumes after its read of the flag: toggleSwitch.checked =
\* enabled, whatever the switch has been set to meanwhile, and
\* loadTokenStatus() suspends at its read.  When the read failed loadState()
\* rejects and the switch stays as it is.
PopupLoaded ==
    \E h \in popup.handlers :
        /\ h.pc = "load"
        /\ IF h.ok
           THEN PopupStep([popup EXCEPT
                             !.checked = IF h.enabled = Undefined
                                         THEN TRUE
                                         ELSE truthyV(h.enabled),
                             !.handlers =
                                 (@ \ {h})
                                 \cup {[h EXCEPT !.pc = "tokenStatus",
                                                 !.ok = storeUp]}],
                          storage, messages, {})
           ELSE PopupStep([popup EXCEPT !.handlers = @ \ {h}], storage,
                          messages, {h.kind})

\* The switch of the popup is flipped: the change handler stores
\* toggleSwitch.checked and suspends.
PopupToggle ==
    /\ popup.pc = "open"
    /\ popup.clicks < scope.clicks
    /\ PopupStep(Clicked([popup EXCEPT !.checked = ~@],
                         {Handler("toggle", "set", BoolV(~popup.checked),
                                  Undefined)}),
                 storageSet(storage, S_enabled, BoolV(~popup.checked)),
                 messages, {})

\* "Refresh All Names" is clicked: the handler suspends at its read of the
\* flag and the token.
PopupRefresh ==
    /\ popup.pc = "open"
    /\ popup.clicks < scope.clicks
    /\ PopupStep(Clicked(popup,
                         {Handler("refresh", "get",
                                  storageGet(S_enabled).value,
                                  storageGet(S_githubToken).value)}),
                 storage, messages, {})

\* "Save" is clicked: the handler returns at once for an input that is no
\* token, and stores the token and suspends otherwise.
PopupSaveToken ==
    /\ popup.pc = "open"
    /\ popup.clicks < scope.clicks
    /\ \E input \in TokenInputs :
          IF isValidToken(trim(input))
          THEN PopupStep(Clicked(popup,
                                 {Handler("saveToken", "save", Undefined,
                                          StrV(trim(input)))}),
                         storageSet(storage, S_githubToken,
                                    StrV(trim(input))),
                         messages, {})
          ELSE PopupStep(Clicked(popup, {}), storage, messages, {})

\* "Remove" is clicked and the user confirms or not: the handler suspends
\* at its read of the flag, or returns.
PopupRemoveToken ==
    /\ popup.pc = "open"
    /\ popup.clicks < scope.clicks
    /\ \E confirmed \in BOOLEAN :
          PopupStep(Clicked(popup,
                            IF confirmed
                            THEN {Handler("removeToken", "get",
                                          storageGet(S_enabled).value,
                                          Undefined)}
                            ELSE {}),
                    storage, messages, {})

\* The Save handler resumes after set({ githubToken }) and reads the flag.
PopupSaveDone ==
    \E h \in popup.handlers :
        /\ h.pc = "save"
        /\ Proceed(h, [h EXCEPT !.pc = "get", !.ok = storeUp,
                                !.enabled = storageGet(S_enabled).value],
                   storage)

\* A handler resumes after its read of the flag and clears the store.
PopupGetDone ==
    \E h \in popup.handlers :
        /\ h.pc = "get"
        /\ Proceed(h, [h EXCEPT !.pc = "clear", !.ok = storeUp],
                   storageClear(storage))

\* A handler resumes after clear() and stores what it keeps.
PopupClearDone ==
    \E h \in popup.handlers :
        /\ h.pc = "clear"
        /\ Proceed(h, [h EXCEPT !.pc = "set", !.ok = storeUp],
                   storageSetAll(storage, kept(h)))

\* A handler resumes after its last set(): the toggle and the refresh
\* handler query the tabs, the token handlers reload the status of the
\* popup first, loadTokenStatus() being suspended at its read.
PopupSetDone ==
    \E h \in popup.handlers :
        /\ h.pc = "set"
        /\ Proceed(h,
                   IF h.kind \in {"toggle", "refresh"}
                   THEN [h EXCEPT !.pc = "query", !.ok = TRUE]
                   ELSE [h EXCEPT !.pc = "tokenStatus", !.ok = storeUp],
                   storage)

\* loadTokenStatus() resumes; loadRateLimitInfo() suspends at its read.
PopupTokenStatusDone ==
    \E h \in popup.handlers :
        /\ h.pc = "tokenStatus"
        /\ Proceed(h, [h EXCEPT !.pc = "rateStatus", !.ok = storeUp], storage)

\* loadRateLimitInfo() resumes: loadState() is at its end, a handler of the
\* token buttons queries the tabs.
PopupRateStatusDone ==
    \E h \in popup.handlers :
        /\ h.pc = "rateStatus"
        /\ IF h.kind = "loadState" /\ h.ok
           THEN PopupStep([popup EXCEPT !.handlers = @ \ {h}], storage,
                          messages, {})
           ELSE Proceed(h, [h EXCEPT !.pc = "query", !.ok = TRUE], storage)

\* chrome.tabs.query resolves with the tab: the handler sends its message
\* and waits for the response.
PopupQueryDone ==
    \E h \in popup.handlers :
        /\ h.pc = "query"
        /\ PopupStep([popup EXCEPT
                        !.handlers =
                            (@ \ {h})
                            \cup {[h EXCEPT
                                     !.pc = "send",
                                     !.wait = Len(acks) + Len(messages) + 1]}],
                     storage, Append(messages, messageOf(h)), {})

\* The response of the tab has arrived: the handler runs to its end.
PopupSendDone ==
    \E h \in popup.handlers :
        /\ h.pc = "send"
        /\ Len(acks) >= h.wait
        /\ PopupStep([popup EXCEPT !.handlers = @ \ {h}], storage, messages,
                     {})

\* sendResponse({ success }) of the onMessage listener, for the message
\* with this action.
sendResponse(action, success) == [action |-> action, success |-> success]

\* The onMessage listener handles a toggle message.  toggleDisplay() and its
\* processPage() dispatch the updateElement calls without awaiting them, so
\* the promise of toggleDisplay() resolves, and the response is sent, before
\* any of the suspended calls resumes.
OnToggle ==
    /\ messages # <<>>
    /\ Head(messages).action = "toggle"
    /\ messages' = Tail(messages)
    /\ isEnabled' = BoolV(Head(messages).enabled)
    /\ \E r \in {toggleDisplay(dom, processedElements,
                                 BoolV(Head(messages).enabled), nameCache)} :
          Dispatch(r)
    /\ acks' = Append(acks, sendResponse("toggle", TRUE))
    /\ UNCHANGED <<nameCache, observing, pendingElements, init, storage,
                   storeUp, purge, now, events, returns, scope, scan, popup,
                   body>>

\* The onMessage listener handles a refreshCache message; the response is
\* sent when the promise of processPage() resolves, before any of the
\* suspended calls resumes.
OnRefreshCache ==
    /\ messages # <<>>
    /\ Head(messages).action = "refreshCache"
    /\ messages' = Tail(messages)
    /\ nameCache' = EmptyMap
    /\ \E r \in {processPage(dom, {}, isEnabled, EmptyMap)} : Dispatch(r)
    /\ acks' = Append(acks, sendResponse("refreshCache", TRUE))
    /\ UNCHANGED <<isEnabled, observing, pendingElements, init, storage,
                   storeUp, purge, now, events, returns, scope, scan, popup,
                   body>>

\* The clearOldCache alarm fires: the handler suspends at its get(null).
AlarmFire ==
    /\ events < scope.events
    /\ purge.pc = "idle"
    /\ purge' = [pc |-> "scan", ok |-> storeUp,
                 items |-> IF storeUp THEN storage ELSE EmptyMap]
    /\ events' = events + 1
    /\ UNCHANGED <<isEnabled, nameCache, pageVars, init, storage, storeUp,
                   tasks, messages, now, rejected, returns, scope, scan, popup, body, acks>>

\* The alarm handler resumes with items: it ends when it collects no key,
\* and suspends at remove(keysToRemove) otherwise.
PurgeDone ==
    /\ purge.pc = "scan"
    /\ IF ~purge.ok
       THEN /\ purge' = [pc |-> "idle", ok |-> TRUE, items |-> EmptyMap]
            /\ rejected' = rejected \cup {"onAlarm"}
            /\ UNCHANGED storage
       ELSE IF keysToRemove(purge.items) = {}
       THEN /\ purge' = [pc |-> "idle", ok |-> TRUE, items |-> EmptyMap]
            /\ UNCHANGED <<storage, rejected>>
       ELSE /\ purge' = [pc |-> "remove", ok |-> storeUp, items |-> EmptyMap]
            /\ storage' = IF storeUp
                          THEN mapRemove(storage, keysToRemove(purge.items))
                          ELSE storage
            /\ UNCHANGED rejected
    /\ UNCHANGED <<isEnabled, nameCache, pageVars, init, storeUp, tasks,
                   messages, now, events, returns, scope, scan, popup, body,
                   acks>>

\* The alarm handler resumes after remove() and ends.
PurgeRemoveDone ==
    /\ purge.pc = "remove"
    /\ purge' = [pc |-> "idle", ok |-> TRUE, items |-> EmptyMap]
    /\ rejected' = IF purge.ok THEN rejected ELSE rejected \cup {"onAlarm"}
    /\ UNCHANGED <<isEnabled, nameCache, pageVars, init, storage, storeUp,
                   tasks, messages, now, events, returns, scope, scan, popup,
                   body, acks>>

\* Time passes.
Tick ==
    /\ events < scope.events
    /\ now' = now + HOUR_MS
    /\ events' = events + 1
    /\ UNCHANGED <<isEnabled, nameCache, pageVars, init, storage, storeUp,
                   tasks, messages, purge, rejected, returns, scope, scan, popup, body, acks>>

\* chrome.storage.local starts rejecting calls, and answers again.
StoreOutage ==
    /\ storeUp
    /\ events < scope.events
    /\ storeUp' = FALSE
    /\ events' = events + 1
    /\ UNCHANGED <<isEnabled, nameCache, pageVars, init, storage, tasks,
                   messages, purge, now, rejected, returns, scope, scan, popup, body, acks>>

StoreRecover ==
    /\ ~storeUp
    /\ storeUp' = TRUE
    /\ UNCHANGED <<isEnabled, nameCache, pageVars, init, storage, tasks,
                   messages, purge, now, rejected, events, returns, scope, scan, popup, body, acks>>

\* The popup is opened and its switch flipped; the tab handles the message.
\* The reads of loadTokenStatus() and loadRateLimitInfo() are answered in
\* TokenClicks.
ToggleClicks ==
    \/ PopupOpen
    \/ PopupLoaded
    \/ PopupToggle
    \/ PopupSetDone
    \/ PopupQueryDone
    \/ PopupSendDone
    \/ OnToggle

\* "Refresh All Names" is clicked; the tab handles the message.
RefreshClicks ==
    \/ PopupRefresh
    \/ PopupGetDone
    \/ PopupClearDone
    \/ OnRefreshCache

\* A token is saved or removed.
TokenClicks ==
    \/ PopupSaveToken
    \/ PopupRemoveToken
    \/ PopupSaveDone
    \/ PopupTokenStatusDone
    \/ PopupRateStatusDone

Next ==
    \/ InitReadDone
    \/ PreloadDone
    \/ BodyAttached
    \/ InitialScan
    \/ Mutation
    \/ DebounceDelay
    \/ DebounceFire
    \/ ToggleClicks
    \/ RefreshClicks
    \/ TokenClicks
    \/ HitReadDone
    \/ MissReadDone
    \/ TokenReadDone
    \/ FetchDone
    \/ RateWriteDone
    \/ JsonDone
    \/ OkWriteDone
    \/ FailWriteDone
    \/ CatchWriteDone
    \/ AlarmFire
    \/ PurgeDone
    \/ PurgeRemoveDone
    \/ Tick
    \/ StoreOutage
    \/ StoreRecover

Spec == Init /\ [][Next]_vars

\* ----------------------------------------------------------- other scopes
\* The durable store of a tab: the flag, and what is cached for octocat.
Store(enabled, entry) ==
    [k \in {S_enabled} \cup (IF entry = Undefined THEN {} ELSE {S_octocat})
        |-> IF k = S_enabled THEN BoolV(enabled) ELSE entry]

\* The page and the content script.
Page ==
    \/ InitReadDone
    \/ PreloadDone
    \/ InitialScan
    \/ Mutation
    \/ DebounceDelay
    \/ DebounceFire

\* The suspended calls.
Resolver ==
    \/ HitReadDone
    \/ MissReadDone
    \/ TokenReadDone
    \/ FetchDone
    \/ RateWriteDone
    \/ JsonDone
    \/ OkWriteDone
    \/ FailWriteDone
    \/ CatchWriteDone

\* Names are resolved in a fresh profile; the durable store fails or time
\* passes.
SpecStore ==
    /\ Start({Store(TRUE, Undefined)}, WellFormed, MaxTasks, MaxEvents)
    /\ [][Page \/ Resolver \/ StoreOutage \/ StoreRecover \/ Tick]_vars

\* Two elements of the same handle are resolved at the same time, and the
\* switch of the popup is clicked once.
SpecRace ==
    /\ Start({Store(TRUE, Undefined)}, {"n1", "n2"}, RaceTasks, MaxEvents)
    /\ [][Page \/ Resolver \/ ToggleClicks]_vars

\* The switch of the popup is clicked twice.
SpecToggle ==
    /\ Start({Store(TRUE, Undefined),
              Store(TRUE, EntryV(S_TheOctocat, StartTime - HOUR_MS))},
             {"n1", "n2"}, MaxTasks, MaxClicks)
    /\ [][Page \/ Resolver \/ ToggleClicks]_vars

\* The clearOldCache alarm fires in a profile whose cached name is 7 days
\* old, while the tab resolves names.
SpecPurge ==
    /\ Start({Store(TRUE, EntryV(S_TheOctocat,
                                 StartTime - CACHE_MAX_AGE_MS))},
             {"n1", "n3"}, MaxTasks, PurgeEvents)
    /\ [][Page \/ Resolver \/ Tick \/ AlarmFire \/ PurgeDone
             \/ PurgeRemoveDone]_vars

\* The page has three elements of the same handle, in a fresh profile.
SpecBatch ==
    /\ Start({Store(TRUE, Undefined)}, {"n1", "n2", "n5"}, BatchTasks,
             MaxEvents)
    /\ [][Page \/ Resolver]_vars

\* The page has an element whose href is a malformed percent-encoded
\* string.
SpecClassify ==
    /\ Start({Store(TRUE, Undefined), Store(FALSE, Undefined)},
             {"n1", "n2", "n4"}, MaxTasks, MaxEvents)
    /\ [][Page \/ Resolver]_vars

\* --------------------------------------------------------------- rendering
\* The text nodes GitHub puts into a link to octocat, and the children of
\* such a link: at most MaxTextNodes text nodes, inside an <svg> or not.
RenderTexts ==
    {S_octocat, S_atOctocat, S_TheOctocat,
     <<" ">> \o S_octocat \o <<"\n">>, <<"b", "y", " ">>, <<" ">>}

RenderChildren ==
    UNION {[1..k -> [text : RenderTexts, svg : BOOLEAN]] :
              k \in 0..MaxTextNodes}

\* The names the memory tier can hold for octocat: the handle, the handle
\* in another letter case, a display name, and a name of blanks only.
RenderNames == {S_octocat, S_Octocat, S_TheOctocat, <<" ">>}

\* An element marked with octocat is rendered again and again from its
\* marker, the memory tier and the flag, as updateElement does for an
\* element of processedElements.
RenderStart ==
    /\ isEnabled \in {BoolV(TRUE), BoolV(FALSE)}
    /\ nameCache \in {[k \in {S_octocat} |-> r] : r \in RenderNames}
    /\ \E x \in {"n1", "n2"} :
          /\ processedElements = {x}
          /\ scope = [page |-> {x}, tasks |-> 0, events |-> MaxRenders,
                     clicks |-> 0, switch |-> {FALSE}]
          /\ dom \in {[n \in Nodes |->
                          IF n = x
                          THEN [inDoc |-> TRUE, children |-> c, title |-> t,
                                marker |-> S_octocat]
                          ELSE Element(n)] :
                      c \in RenderChildren,
                      t \in {Null, <<"@">> \o S_octocat}}
    /\ observing = TRUE
    /\ pendingElements = {}
    /\ debounceTimer = FALSE
    /\ burst = NoBurst
    /\ storage = Store(isEnabled.b, Undefined)
    /\ storeUp = TRUE
    /\ init = [pc |-> "done", got |-> NoGot, items |-> EmptyMap]
    /\ tasks = EmptyBag
    /\ messages = <<>>
    /\ purge = [pc |-> "idle", ok |-> TRUE, items |-> EmptyMap]
    /\ now = StartTime
    /\ rejected = {}
    /\ returns = {}
    /\ events = 0
    /\ acks = <<>>
    /\ scan = NoScan
    /\ popup = NoPopup
    /\ body = TRUE

\* updateElement(element) for an element of processedElements.
Rerender ==
    \E n \in processedElements :
        /\ events < scope.events
        /\ events' = events + 1
        /\ \E r \in {forEachUpdateElement({n}, dom, processedElements,
                                            isEnabled, nameCache)} :
              Dispatch(r)
        /\ UNCHANGED <<isEnabled, nameCache, observing, pendingElements,
                       init, storage, storeUp, messages, purge, now, returns,
                       scope, scan, popup, body, acks>>

\* The renders, and the debounce timer their writes arm.
SpecRender == RenderStart /\ [][Rerender \/ DebounceDelay \/ DebounceFire]_vars

\* The page has links into non-identity sections and to commits.
SpecLinks ==
    /\ Start({Store(TRUE, Undefined), Store(FALSE, Undefined)},
             {"n1", "n6", "n7"}, MaxTasks, MaxEvents)
    /\ [][Page \/ Resolver]_vars

\* The page has links whose handle comes from the link target or from the
\* timeline's avatar link, in ASCII and in letters whose lower-case mapping
\* depends on the context or leaves the script, and links whose text is not
\* the candidate.  The flag is off: the elements are classified and marked,
\* and no name is looked up.
SpecText ==
    /\ Start({Store(FALSE, Undefined)},
             {"n8", "n9", "n10", "n12", "n13", "n14"}, MaxTasks, MaxEvents)
    /\ [][Page]_vars

\* The switch and the refresh button of the popup are clicked while the
\* name of an element is resolved.
SpecRefresh ==
    /\ Start({Store(TRUE, Undefined),
              Store(TRUE, EntryV(S_TheOctocat, StartTime - HOUR_MS))},
             {"n1"}, MaxTasks, MaxClicks)
    /\ [][Page \/ Resolver \/ ToggleClicks \/ RefreshClicks]_vars

\* A handle is requested again: the page has a plain link and a mention of
\* octocat, in a profile that holds a name for octocat or none, and one
\* click is made in the popup.
SpecRepeat ==
    /\ Start({Store(TRUE, Undefined),
              Store(TRUE, EntryV(S_TheOctocat, StartTime - HOUR_MS))},
             {"n1", "n2"}, MaxTasks, MaxEvents)
    /\ [][Page \/ Resolver \/ ToggleClicks \/ RefreshClicks]_vars

\* The profile has the flag off: the page has a plain link to octocat and a
\* link whose handle is in its data-user attribute and whose text is not
\* the handle, and the switch of the popup is clicked once.
SpecDisabled ==
    /\ Start({Store(FALSE, Undefined)}, {"n1", "n11"}, MaxTasks, MaxEvents)
    /\ [][Page \/ Resolver \/ ToggleClicks]_vars

\* init() has completed in a tab whose durable store is one of stores and
\* whose document has its <body>: the flag is read, the memory tier
\* preloaded, the observer set up and the first processPage() has run over
\* the page, which is still empty.  The popup is closed, its switch
\* unchecked in its markup.
Ready(stores, page, maxTasks, maxEvents) ==
    /\ storage \in stores
    /\ isEnabled = IF S_enabled \in DOMAIN storage
                   THEN storage[S_enabled]
                   ELSE BoolV(TRUE)
    /\ nameCache = preloadCache(EmptyMap, storage)
    /\ processedElements = {}
    /\ dom = [n \in Nodes |-> Element(n)]
    /\ observing = TRUE
    /\ pendingElements = {}
    /\ debounceTimer = FALSE
    /\ burst = NoBurst
    /\ storeUp = TRUE
    /\ init = [pc |-> "done", got |-> NoGot, items |-> EmptyMap]
    /\ tasks = EmptyBag
    /\ messages = <<>>
    /\ purge = [pc |-> "idle", ok |-> TRUE, items |-> EmptyMap]
    /\ now = StartTime
    /\ rejected = {}
    /\ returns = {}
    /\ events = 0
    /\ scope = [page |-> page, tasks |-> maxTasks, events |-> maxEvents,
                clicks |-> maxEvents, switch |-> {FALSE}]
    /\ acks = <<>>
    /\ scan = NoScan
    /\ popup = NoPopup
    /\ body = TRUE

\* Two requests for the same handle overlap once the content script has
\* started: the page attaches a plain link and a mention of octocat in a
\* fresh profile, two calls can be suspended at the same time, and
\* "Refresh All Names" is clicked once.
SpecRoundTrip ==
    /\ Ready({Store(TRUE, Undefined)}, {"n1", "n2"}, RaceTasks, MaxEvents)
    /\ [][Mutation \/ DebounceDelay \/ DebounceFire \/ Resolver
             \/ PopupOpen \/ PopupLoaded \/ PopupSetDone \/ PopupQueryDone
             \/ PopupSendDone \/ RefreshClicks]_vars

\* The debounce timer is due and processPendingElements() can run: the
\* enabling condition of DebounceFire, a step that always clears the timer.
DebounceFireEnabled ==
    /\ debounceTimer
    /\ burst.elapsed
    /\ BagCardinality(tasks (+) SetToBag(
           forEachUpdateElement(pendingElements, dom, processedElements,
                                isEnabled, nameCache).spawn)) <= scope.tasks

\* What resuming the suspended call t can leave: the effects of the step of
\* Resolver for the await it is at.
resumed(t) ==
    CASE t.pc = "hitRead" -> {hitReadDone(t)}
      [] t.pc = "missRead" -> {missReadDone(t)}
      [] t.pc = "tokenRead" -> {tokenReadDone(t)}
      [] t.pc = "fetching" -> {fetchDone(t, r) : r \in Outcomes(t.username)}
      [] t.pc = "rateWrite" -> {rateWriteDone(t)}
      [] t.pc = "json" -> {jsonDone(t)}
      [] t.pc = "okWrite" -> {okWriteDone(t)}
      [] t.pc = "failWrite" -> {failWriteDone(t)}
      [] t.pc = "catchWrite" -> {catchWriteDone(t)}
      [] OTHER -> {}

\* A suspended call can resume: the enabling condition of Resolver, whose
\* steps always change tasks.
ResolverEnabled ==
    \E t \in BagToSet(tasks) :
        \E eff \in resumed(t) :
            BagCardinality((tasks (-) SetToBag({t})) (+) SetToBag(eff.next))
                <= scope.tasks

\* SpecRace with the scheduling of the browser: the delay of an armed timer
\* elapses, a timer that is due fires, and an awaited promise that has
\* settled resumes its call.  The second and the third conjunct are
\* WF_vars(DebounceFire) and WF_vars(Resolver) with ENABLED <<A>>_vars
\* written as DebounceFireEnabled and ResolverEnabled.
SpecDrain ==
    /\ SpecRace
    /\ WF_vars(DebounceDelay)
    /\ ([]<>(~DebounceFireEnabled) \/ []<><<DebounceFire>>_vars)
    /\ ([]<>(~ResolverEnabled) \/ []<><<Resolver>>_vars)

\* ------------------------------------------------------------- rate limits
\* A stored snapshot that says the quota is used up until an hour from now
\* (the reset header counts seconds).
ExhaustedSnapshot == RateV(60, 0, StartTime \div 1000 + 3600)

\* The rate-limit headers a response can carry: those of an exhausted
\* anonymous quota, those of an authenticated quota, some of them, none.
HeaderSets ==
    {RateHeaders,
     [limit |-> <<"5", "0", "0", "0">>,
      remaining |-> <<"4", "9", "9", "9">>,
      reset |-> RateHeaders.reset],
     [RateHeaders EXCEPT !.reset = Null],
     [RateHeaders EXCEPT !.limit = Null, !.remaining = Null],
     NoHeaders}

\* What await fetch(...) can produce when the headers vary: a rejection, a
\* refusal or a success, with each set of headers.
RateOutcomes(username) ==
    {[status |-> 0, headers |-> NoHeaders, body |-> "networkError",
      name |-> Null]}
    \cup {[status |-> st, headers |-> h, body |-> "json",
           name |-> IF st = 200 THEN RemoteName(username) ELSE Null] :
              st \in {200, 403}, h \in HeaderSets}

\* fetch(...) answers with any of RateOutcomes.
FetchDoneRate ==
    \E t \in BagToSet(tasks) :
        /\ t.pc = "fetching"
        /\ \E r \in RateOutcomes(t.username) :
              \E eff \in {fetchDone(t, r)} : Resume(t, eff)

\* Names are resolved in a profile that holds a rate-limit snapshot or
\* none, and a name cached 7 days ago or none.
SpecRate ==
    /\ Start({IF snapshot
              THEN mapSet(Store(TRUE, entry), S_rateLimitData,
                          ExhaustedSnapshot)
              ELSE Store(TRUE, entry) :
                 snapshot \in BOOLEAN,
                 entry \in {Undefined,
                            EntryV(S_TheOctocat,
                                   StartTime - CACHE_MAX_AGE_MS)}},
             {"n1", "n2"}, MaxTasks, MaxEvents)
    /\ [][Page \/ HitReadDone \/ MissReadDone \/ TokenReadDone
             \/ FetchDoneRate \/ RateWriteDone \/ JsonDone \/ OkWriteDone
             \/ FailWriteDone \/ CatchWriteDone]_vars

\* ------------------------------------------------------------ long pages
\* The positions of a page of n elements at which a batch of processPage
\* starts or ends.
BatchEdges(n) == {k \in 1..n : k % BATCH_SIZE \in {0, 1}}

\* The long pages: up to MaxMatched links, which show "Profile" or have a
\* malformed href but for at most ScanHandles links that show their handle,
\* each the first or the last element of a batch.
LongPages ==
    {[k \in 1..n |-> IF k \in H THEN Copy("n1", k) ELSE Copy(f, k)] :
        <<n, f, H>> \in
            {x \in (0..MaxMatched) \X {"n4", "n8"}
                   \X SUBSET BatchEdges(MaxMatched) :
                /\ x[3] \subseteq 1..x[1]
                /\ Cardinality(x[3]) <= ScanHandles
                /\ x[2] = "n4" => x[3] = {}}}

\* init() calls processPage() on a long page, in a profile that holds a name
\* for octocat or none; the rest of the content script is at rest.
ScanStart ==
    /\ scan = [NoScan EXCEPT !.pc = "called"]
    /\ isEnabled = BoolV(TRUE)
    /\ storage \in {Store(TRUE, Undefined),
                    Store(TRUE, EntryV(S_TheOctocat, StartTime - HOUR_MS))}
    /\ nameCache = preloadCache(EmptyMap, storage)
    /\ processedElements = {}
    /\ \E page \in LongPages :
          dom = [n \in Nodes \cup {page[k] : k \in 1..Len(page)} |->
                    IF n \in Nodes
                    THEN Element(n)
                    ELSE [Element(n) EXCEPT !.inDoc = TRUE]]
    /\ observing = TRUE
    /\ pendingElements = {}
    /\ debounceTimer = FALSE
    /\ burst = NoBurst
    /\ storeUp = TRUE
    /\ init = [pc |-> "done", got |-> NoGot, items |-> EmptyMap]
    /\ tasks = EmptyBag
    /\ messages = <<>>
    /\ purge = [pc |-> "idle", ok |-> TRUE, items |-> EmptyMap]
    /\ now = StartTime
    /\ rejected = {}
    /\ returns = {}
    /\ events = 0
    /\ scope = [page |-> {}, tasks |-> 2 * MaxMatched, events |-> 0,
                clicks |-> 0, switch |-> {FALSE}]
    /\ acks = <<>>
    /\ popup = NoPopup
    /\ body = TRUE

\* processPage() runs its loop from the test of s, the state of the call,
\* to the next await or the end: batch.forEach(el => updateElement(el))
\* leaves each call at its first await, returned or rejected.
ScanLoop(s) ==
    /\ scan' = iterate(s)
    /\ \E r \in {forEachUpdateElement(
                     {slice(s.elements, s.i)[k] :
                         k \in 1..Len(slice(s.elements, s.i))},
                     dom, processedElements, isEnabled, nameCache)} :
          Dispatch(r)
    /\ UNCHANGED <<isEnabled, nameCache, observing, pendingElements, init,
                   storage, storeUp, messages, purge, now, events, returns,
                   scope, popup, body, acks>>

\* processPage() runs from its call to its first await or its return.
ScanCall ==
    /\ scan.pc = "called"
    /\ IF Len(querySelectorAll(dom)) = 0
       THEN /\ scan' = [scan EXCEPT !.pc = "done"]
            /\ UNCHANGED <<isEnabled, nameCache, pageVars, init, storage,
                           storeUp, tasks, messages, purge, now, rejected,
                           returns, events, scope, popup, body, acks>>
       ELSE ScanLoop([scan EXCEPT !.elements = querySelectorAll(dom)])

\* The idle callback (or timer) of the yield resolves: i += BATCH_SIZE and
\* the loop goes on.
ScanResume ==
    /\ scan.pc = "yield"
    /\ ScanLoop([scan EXCEPT !.i = @ + BATCH_SIZE])

\* processPage() runs over a long page while the updateElement calls it has
\* dispatched resume.
SpecScan == ScanStart /\ [][ScanCall \/ ScanResume \/ Resolver]_vars

\* -------------------------------------------------------------- properties
\* What an element displays, and its two displays: its handle without a
\* tooltip, or a name with the handle as tooltip.
shown(e) == trim(textContent(e.children))

showsHandle(e, m, username) ==
    /\ shown(e) \in {username, <<"@">> \o username}
    /\ e.title = Null

showsName(e, username, realName) ==
    /\ shown(e) = realName
    /\ e.title = <<"@">> \o username

\* The name the durable tier holds for a handle (Null when it holds none).
durableName(store, username) ==
    IF username \in DOMAIN store THEN nameOf(store[username]) ELSE Null

\* The step resumes the suspended call t.
Resumed(t) ==
    /\ t \in BagToSet(tasks)
    /\ CopiesIn(t, tasks') < CopiesIn(t, tasks)

\* The calls the step leaves suspended that were not suspended before it.
Spawned(t) == CopiesIn(t, tasks') > CopiesIn(t, tasks)

\* C1 -- Failure caching: the step in which the remote lookup of a
\* fetchRealName call fails leaves the handle as the name of the handle in
\* the memory tier and in the durable tier, and the call returns the handle.
FailureCaching ==
    [][/\ \A t \in BagToSet(tasks) :
             \A u \in BagToSet(tasks') :
                 (/\ Resumed(t) /\ Spawned(u)
                  /\ t.lookup = "none" /\ u.lookup = "failed")
                 => /\ cacheGet(nameCache', u.username) = u.username
                    /\ durableName(storage', u.username) = u.username
       /\ \A c \in returns' \ returns :
             c.lookup = "failed" => c.value = c.username]_vars

\* C2 -- The resolver never throws: every fetchRealName call that has ended
\* has returned a name, and the handle when its lookup failed; none has
\* ended in a rejection.
ResolverNeverThrows ==
    \A c \in returns :
        /\ c.value # Rejected
        /\ Truthy(c.value)
        /\ c.lookup = "failed" => c.value = c.username

\* C5 -- Reserved-key isolation: the durable keys enabled, githubToken and
\* rateLimitData never hold a cached name; the flag stays a boolean.
ReservedKeyIsolation ==
    /\ \A k \in protectedKeys \cap DOMAIN storage :
          storage[k].kind # "entry"
    /\ S_enabled \in DOMAIN storage => storage[S_enabled].kind = "bool"

\* The step handles the message at the head of the queue.
Handles(action) ==
    /\ messages # <<>>
    /\ Head(messages).action = action
    /\ messages' = Tail(messages)

\* The memory tier keeps what it holds for every handle but those of the
\* calls the step resumes.
MemoryKept ==
    \A h \in DOMAIN nameCache :
        (\A t \in BagToSet(tasks) : Resumed(t) => t.username # h)
            => /\ h \in DOMAIN nameCache'
               /\ nameCache'[h] = nameCache[h]

\* A step takes the miss path of updateElement for an element, or passes the
\* cache check of fetchRealName, only when the memory tier holds nothing for
\* the handle.
HitIssuesNoLookup ==
    \A t \in BagToSet(tasks') :
        (Spawned(t) /\ t.el # NoNode
                    /\ t.pc \in {"missRead", "tokenRead"})
            => t.username \notin DOMAIN nameCache'

\* C3 -- Cache round-trip, as the code has it: what a resolution wrote into
\* the memory tier for a handle stays there until a resolution of the same
\* handle writes again or a refreshCache message clears the tier; and a
\* request for a handle the tier holds, also one that arrives while the
\* call that wrote the entry is still suspended, observes a hit and starts
\* no lookup for the element.
CacheRoundTrip ==
    [][/\ ~Handles("refreshCache") => MemoryKept
       /\ HitIssuesNoLookup]_vars

\* C3 -- Cache round-trip, as stated: what a resolution wrote into the
\* memory tier for a handle is what every later lookup in the same document
\* returns, whatever the step.
CacheRoundTripAlways ==
    [][MemoryKept /\ HitIssuesNoLookup]_vars

\* A resolution has written a name for a handle into the memory tier and
\* is suspended at its durable write, while a second request for the
\* handle, made for another element, is suspended on the hit path.
CacheRoundTripSeen ==
    \E t \in BagToSet(tasks) :
        \E u \in BagToSet(tasks) :
            /\ t.pc = "okWrite"
            /\ t.el # NoNode
            /\ u.pc = "hitRead"
            /\ u.username = t.username
            /\ u.el \notin {t.el, NoNode}
            /\ cacheGet(nameCache, t.username) = S_TheOctocat

\* A marked element whose handle has a cached name other than the handle.
named(n) ==
    /\ dom[n].inDoc
    /\ Truthy(dom[n].marker)
    /\ Truthy(cacheGet(nameCache, dom[n].marker))
    /\ cacheGet(nameCache, dom[n].marker) # dom[n].marker

\* C4 -- Toggle reversibility: when a toggle message is handled, every
\* marked element with a cached name L other than its handle h that displays
\* L with tooltip @h, or h without tooltip, displays h without tooltip after
\* toggle(false) and L with tooltip @h after toggle(true).
ToggleReversibility ==
    [][Handles("toggle") =>
          \A n \in Nodes :
              (/\ named(n)
               /\ \/ showsName(dom[n], dom[n].marker,
                               cacheGet(nameCache, dom[n].marker))
                  \/ showsHandle(dom[n], NodeDef[n], dom[n].marker))
              => IF Head(messages).enabled
                 THEN showsName(dom'[n], dom[n].marker,
                                cacheGet(nameCache, dom[n].marker))
                 ELSE showsHandle(dom'[n], NodeDef[n], dom[n].marker)]_vars

\* toggle(false) and toggle(true) have been handled, and a marked element
\* displays its cached name with its handle as tooltip.
ToggledBack ==
    /\ popup.clicks = 2
    /\ Len(acks) = 2
    /\ messages = <<>>
    /\ truthyV(isEnabled)
    /\ \E n \in Nodes :
          /\ named(n)
          /\ showsName(dom[n], S_octocat, S_TheOctocat)

\* The suspended call t is the only resolution of its handle so far.
Alone(t) ==
    /\ CopiesIn(t, tasks) = 1
    /\ \A u \in BagToSet(tasks) : u.username = t.username => u = t
    /\ \A c \in returns : c.username # t.username

\* C6 -- Cold resolution: an element dispatched with the flag set and no
\* name in the memory tier displays its handle; the step that receives the
\* name L of the handle h writes L into the memory tier and {L, now} into
\* the durable tier; when the call returns L and the flag is set the element
\* displays L with tooltip @h, and (the call being the only resolution of h)
\* both tiers hold L, the durable one with the time of the write.
ColdResolution ==
    [][/\ \A t \in BagToSet(tasks') :
             (Spawned(t) /\ t.pc = "missRead")
                 => showsHandle(dom'[t.el], NodeDef[t.el], t.username)
       /\ \A t \in BagToSet(tasks) :
             (Resumed(t) /\ t.pc = "json" /\ t.resp.body = "json"
                         /\ Truthy(t.resp.name))
                 => /\ cacheGet(nameCache', t.username) = t.resp.name
                    /\ storeUp =>
                          /\ t.username \in DOMAIN storage'
                          /\ storage'[t.username] = EntryV(t.resp.name, now)
       /\ \A t \in BagToSet(tasks) :
             (Resumed(t) /\ t.pc = "okWrite" /\ t.got.ok /\ t.el # NoNode
                         /\ t.val # t.username)
                 => /\ truthyV(isEnabled) =>
                          showsName(dom'[t.el], t.username, t.val)
                    /\ Alone(t) =>
                          /\ cacheGet(nameCache', t.username) = t.val
                          /\ durableName(storage', t.username) = t.val
                          /\ timestampOf(storage'[t.username])
                                 \in StartTime..now]_vars

\* The cold resolution of octocat has completed: the element displays the
\* name, and both tiers hold it.
ColdResolved ==
    /\ \E c \in returns : c.lookup = "ok" /\ c.value = S_TheOctocat
    /\ \E n \in Nodes : /\ dom[n].marker = S_octocat
                        /\ showsName(dom[n], S_octocat, S_TheOctocat)
    /\ cacheGet(nameCache, S_octocat) = S_TheOctocat
    /\ durableName(storage, S_octocat) = S_TheOctocat
    /\ timestampOf(storage[S_octocat]) >= StartTime

\* C7 -- Staleness threshold: revalidateIfStale starts a background lookup
\* exactly when now minus the timestamp exceeds 24 hours: for an entry aged
\* 25 hours, not for one aged 1 hour or exactly 24 hours; and a durable read
\* of updateElement that returns an entry with a name starts one exactly
\* then.
StalenessThreshold ==
    [][/\ revalidateIfStale(S_octocat, now - 25 * HOUR_MS) # {}
       /\ revalidateIfStale(S_octocat, now - 24 * HOUR_MS - 1) # {}
       /\ revalidateIfStale(S_octocat, now - 24 * HOUR_MS) = {}
       /\ revalidateIfStale(S_octocat, now - HOUR_MS) = {}
       /\ \A t \in BagToSet(tasks) :
             (/\ Resumed(t)
              /\ t.pc \in {"hitRead", "missRead"}
              /\ t.got.ok
              /\ Truthy(nameOf(t.got.value)))
             => ((\E u \in BagToSet(tasks') :
                     /\ Spawned(u)
                     /\ u.el = NoNode
                     /\ u.username = t.username)
                 <=> now - timestampOf(t.got.value) > 24 * HOUR_MS)]_vars

\* A background revalidation is under way for an entry aged 25 hours.
Revalidating ==
    \E t \in BagToSet(tasks) :
        /\ t.el = NoNode
        /\ t.username \in DOMAIN storage
        /\ now - timestampOf(storage[t.username]) = 25 * HOUR_MS

\* The alarm handler resumes with the items of the store and removes the
\* keys it collects.
Purging == purge.pc = "scan" /\ purge'.pc # "scan"

\* The keys of the durable store whose entry is older than 7 days.
expired ==
    {k \in DOMAIN storage \ protectedKeys :
        /\ timestampOf(storage[k]) # 0
        /\ now - timestampOf(storage[k]) > 7 * 24 * HOUR_MS}

\* C8 -- Purge: a run of the clearOldCache job removes from the durable
\* store exactly the non-reserved entries whose timestamp is older than
\* 7 days and leaves every other key with its value.
PurgeExactly ==
    [][Purging => storage' = mapRemove(storage, expired)]_vars

\* The text the element e displays is the handle, with or without the @,
\* in any letter case: the text the display write replaces.
displaysHandleText(e, username) ==
    toLowerCase(shown(e)) \in {toLowerCase(username),
                               <<"@">> \o toLowerCase(username)}

\* A step that leaves the flag false marks every element it processes for
\* the first time with its handle and leaves it displayed as display(n)
\* says, suspends no call of updateElement, so starts no durable read and
\* no lookup; the observer collects every matching element the page
\* attaches, and the debounce handler processes every collected element
\* that classifies to a handle.
DisabledSteps(display(_)) ==
    /\ isEnabled' = BoolV(FALSE) =>
          /\ \A n \in processedElements' \ processedElements :
                ~Truthy(dom[n].marker) =>
                /\ dom'[n].marker =
                       extractUsername(NodeDef[n], dom[n].children)
                /\ display(n)
          /\ \A t \in BagToSet(tasks') :
                Spawned(t) => t.pc \notin {"hitRead", "missRead"}
          /\ (debounceTimer /\ ~debounceTimer') =>
                \A n \in pendingElements \ processedElements :
                    Truthy(extractUsername(NodeDef[n], dom[n].children))
                        => n \in processedElements'
    /\ \A n \in Nodes :
          (observing /\ ~dom[n].inDoc /\ dom'[n].inDoc
                     /\ matchesSelectors(NodeDef[n]))
              => n \in pendingElements' /\ debounceTimer'

DisableDuringResolution ==
    [][/\ \A t \in BagToSet(tasks) :
             (Resumed(t) /\ t.pc = "json" /\ t.resp.body = "json")
                 => cacheGet(nameCache', t.username)
                        = orElse(t.resp.name, t.username)
       /\ \A c \in returns' \ returns :
             \A t \in BagToSet(tasks) :
                 (/\ Resumed(t)
                  /\ t.el # NoNode
                  /\ c.username = t.username
                  /\ c.value # Rejected
                  /\ ~truthyV(isEnabled))
                 => showsHandle(dom'[t.el], NodeDef[t.el], t.username)]_vars

\* C11 -- Marker immutability: once the marker attribute of an element
\* records a handle, no step changes it to another value or removes it.
MarkerImmutable ==
    [][\A n \in Nodes :
          Truthy(dom[n].marker) => dom'[n].marker = dom[n].marker]_vars

\* C12 -- refreshCache forces a full pass: the step that handles a
\* refreshCache message with the flag set clears the memory tier but for
\* what the pass itself writes, and classifies every element that was
\* marked to the handle it had and starts its resolution again.
RefreshFullPass ==
    [][(Handles("refreshCache") /\ truthyV(isEnabled)) =>
          /\ nameCache' = EmptyMap
          /\ \A n \in Nodes :
                (dom[n].inDoc /\ Truthy(dom[n].marker)) =>
                    /\ n \in processedElements'
                    /\ dom'[n].marker = dom[n].marker
                    /\ \E t \in BagToSet(tasks') :
                          /\ Spawned(t)
                          /\ t.el = n
                          /\ t.username = dom[n].marker
                          /\ t.pc = "missRead"]_vars

\* C13 -- Completion acknowledgement: the step that sends the response to
\* a toggle or refreshCache message leaves no updateElement call of the
\* pass suspended, and every handled message gets a response.
AcknowledgedWhenDone ==
    [][/\ acks' # acks =>
             \A t \in BagToSet(tasks') : Spawned(t) => t.el = NoNode
       /\ (Handles("toggle") \/ Handles("refreshCache")) =>
             Len(acks') = Len(acks) + 1]_vars

\* C14 -- No partial cache write: when a fetchRealName call that has
\* written the cache ends, returning or rejecting, the durable tier holds an
\* entry for its handle if the memory tier holds a name for it.
NoPartialWrite ==
    [][\A t \in BagToSet(tasks) :
          (/\ Resumed(t)
           /\ t.pc \in {"okWrite", "failWrite", "catchWrite"}
           /\ returns' # returns
           /\ Truthy(cacheGet(nameCache', t.username)))
          => Truthy(durableName(storage', t.username))]_vars

\* C15 -- Durable fallback: while the display is enabled, when updateElement
\* resumes on its miss path with a durable entry that has a name L for the
\* handle h, the memory tier holds h -> L after the step, the element (as
\* the call left it at its await, marked with h and displaying h) displays
\* L, and the only call the step starts is the background revalidation of
\* h, started only when the entry is older than 24 hours.
DurableFallback ==
    [][\A t \in BagToSet(tasks) :
          (/\ Resumed(t)
           /\ t.pc = "missRead"
           /\ t.got.ok
           /\ t.got.value.kind = "entry"
           /\ Truthy(t.got.value.name)
           /\ isEnabled = BoolV(TRUE))
          => /\ cacheGet(nameCache', t.username) = t.got.value.name
             /\ (/\ dom[t.el].marker = t.username
                 /\ showsHandle(dom[t.el], NodeDef[t.el], t.username)) =>
                   IF t.got.value.name = t.username
                   THEN showsHandle(dom'[t.el], NodeDef[t.el], t.username)
                   ELSE showsName(dom'[t.el], t.username, t.got.value.name)
             /\ \A u \in BagToSet(tasks') :
                   Spawned(u) =>
                       /\ u.el = NoNode
                       /\ u.username = t.username
                       /\ now - t.got.value.timestamp > REVALIDATE_AGE_MS]_vars

\* updateElement is suspended on its miss path and its durable read has
\* found a name for a handle the memory tier does not hold.
DurableFallbackPending ==
    \E t \in BagToSet(tasks) :
        /\ t.pc = "missRead"
        /\ t.el # NoNode
        /\ t.got.ok
        /\ t.got.value.kind = "entry"
        /\ t.got.value.name = S_TheOctocat
        /\ t.username \notin DOMAIN nameCache
        /\ isEnabled = BoolV(TRUE)
        /\ showsHandle(dom[t.el], NodeDef[t.el], t.username)

\* C16 -- Label never empty: no name in the memory tier and no name of a
\* durable entry is the empty string (or null); and the step that receives
\* a response whose name field is missing, null or empty stores the handle
\* as the name, in the memory tier and in the durable tier.
LabelNeverEmpty ==
    /\ [](/\ \A h \in DOMAIN nameCache :
               nameCache[h] # <<>> /\ nameCache[h] # Null
          /\ \A k \in DOMAIN storage :
               storage[k].kind = "entry" =>
                   storage[k].name # <<>> /\ storage[k].name # Null)
    /\ [][\A t \in BagToSet(tasks) :
             (/\ Resumed(t)
              /\ t.pc = "json"
              /\ t.resp.body = "json"
              /\ t.resp.name \in {<<>>, Null})
             => /\ cacheGet(nameCache', t.username) = t.username
                /\ storeUp => durableName(storage', t.username) = t.username
                /\ \E u \in BagToSet(tasks') :
                      Spawned(u) /\ u.val = t.username]_vars

\* The lookup of octocat has answered with an empty name field and the call
\* has returned: both tiers hold the handle as the name.
EmptyNameStored ==
    /\ \E c \in returns :
          c.username = S_octocat /\ c.lookup = "ok" /\ c.value = S_octocat
    /\ cacheGet(nameCache, S_octocat) = S_octocat
    /\ durableName(storage, S_octocat) = S_octocat

\* The step is a notification of the observer / a drain of the pending set.
Notified == observing /\ \E n \in Nodes : ~dom[n].inDoc /\ dom'[n].inDoc

Drained == debounceTimer /\ ~debounceTimer'

\* C17 -- Debounce: a notification of the observer collects the matching
\* elements, drains nothing and leaves the timer armed with its delay started
\* again, so that the notifications of a burst are followed by one drain;
\* the drain comes when the delay has elapsed since the last notification,
\* passes every collected element to updateElement once, and leaves the
\* pending set empty and the timer idle.
Debounce ==
    /\ [](/\ pendingElements # {} => debounceTimer
          /\ debounceTimer <=> burst.notifications > 0)
    /\ [][/\ Notified =>
                /\ debounceTimer' /\ ~burst'.elapsed
                /\ burst'.notifications =
                       IF debounceTimer /\ ~burst.elapsed
                       THEN burst.notifications + 1
                       ELSE 1
                /\ pendingElements' =
                       pendingElements
                       \cup {n \in Nodes : /\ ~dom[n].inDoc /\ dom'[n].inDoc
                                            /\ matchesSelectors(NodeDef[n])}
                /\ processedElements' = processedElements
                /\ tasks' = tasks
          /\ Drained =>
                /\ burst.elapsed
                /\ pendingElements' = {}
                /\ \A n \in Nodes \ pendingElements : dom'[n] = dom[n]
                /\ \A n \in pendingElements :
                      LET r == updateElement(n, dom[n],
                                             n \in processedElements,
                                             isEnabled, nameCache)
                      IN  /\ dom'[n] = r.elem
                          /\ n \in processedElements' <=>
                                 (r.marked \/ n \in processedElements)
                          /\ \A t \in BagToSet(tasks') :
                                (Spawned(t) /\ t.el = n) =>
                                    /\ t \in r.task
                                    /\ CopiesIn(t, tasks')
                                           = CopiesIn(t, tasks) + 1
                          /\ \A t \in r.task : Spawned(t)
                /\ \A t \in BagToSet(tasks') :
                      Spawned(t) => t.el \in pendingElements]_vars

\* A burst of two notifications is over: the delay has elapsed since the
\* second one, and the elements of both wait for the drain.
BurstOver ==
    /\ burst = [notifications |-> 2, elapsed |-> TRUE]
    /\ debounceTimer
    /\ pendingElements = {"n1", "n2"}
    /\ processedElements = {}

\* C18 -- Classifier purity: extractUsername is a function of the element's
\* markup and text, so repeated calls on an unchanged element agree and
\* change nothing; and it raises for no element of the page: it returns a
\* handle or null, and no call of updateElement ends in a rejection.
ClassifierNeverRaises ==
    /\ \A n \in Nodes :
          dom[n].inDoc => extractUsername(NodeDef[n], dom[n].children) # URIError
    /\ "updateElement" \notin rejected

\* C19 -- Stale hit revalidation re-renders: when a background revalidation
\* of a handle ends while the display is enabled, every element of the page
\* marked with the handle displays the name the memory tier now holds for
\* it.
RevalidationRerenders ==
    [][\A t \in BagToSet(tasks) :
          (/\ Resumed(t)
           /\ t.el = NoNode
           /\ returns' # returns
           /\ isEnabled = BoolV(TRUE))
          => \A n \in Nodes :
                (dom[n].inDoc /\ dom[n].marker = t.username) =>
                    IF cacheGet(nameCache', t.username) = t.username
                    THEN showsHandle(dom'[n], NodeDef[n], t.username)
                    ELSE showsName(dom'[n], t.username,
                                   cacheGet(nameCache', t.username))]_vars

\* The step is the clear() of a handler of the popup: of its refresh button
\* or of its token buttons.
PopupCleared ==
    \E h \in popup.handlers : h.pc = "get" /\ h \notin popup'.handlers

\* C20 -- Stale entries are still served: the step in which updateElement
\* hits the memory tier displays the cached name on the element and starts
\* no lookup; the step that resumes it after its durable read changes
\* neither the display nor the tiers, and starts the revalidation when the
\* entry is stale; and an entry leaves the memory tier only on a
\* refreshCache message, the durable tier only by the 7-day purge or a
\* clear() of the popup.
StaleServed ==
    [][/\ \A t \in BagToSet(tasks') :
             (Spawned(t) /\ t.pc = "hitRead") =>
                 /\ t.username \in DOMAIN nameCache
                 /\ nameCache' = nameCache
                 /\ IF nameCache[t.username] = t.username
                    THEN showsHandle(dom'[t.el], NodeDef[t.el], t.username)
                    ELSE showsName(dom'[t.el], t.username,
                                   nameCache[t.username])
                 /\ \A u \in BagToSet(tasks') :
                       Spawned(u) =>
                           u.el # NoNode /\ u.pc \in {"hitRead", "missRead"}
       /\ \A t \in BagToSet(tasks) :
             (Resumed(t) /\ t.pc = "hitRead") =>
                 /\ dom' = dom
                 /\ nameCache' = nameCache
                 /\ storage' = storage
                 /\ (/\ t.got.ok
                     /\ t.got.value.kind = "entry"
                     /\ now - t.got.value.timestamp > REVALIDATE_AGE_MS)
                    => \E u \in BagToSet(tasks') :
                          /\ Spawned(u)
                          /\ u.el = NoNode
                          /\ u.username = t.username
                          /\ u.pc = "tokenRead"
       /\ DOMAIN nameCache \ DOMAIN nameCache' # {} => Handles("refreshCache")
       /\ DOMAIN storage \ DOMAIN storage' # {} =>
             Purging \/ PopupCleared]_vars

\* updateElement has hit a stale entry and is suspended at its durable read:
\* the element displays the cached name, and no revalidation has started.
StaleHitDisplayed ==
    \E t \in BagToSet(tasks) :
        /\ t.pc = "hitRead"
        /\ t.got.ok
        /\ t.got.value.kind = "entry"
        /\ now - t.got.value.timestamp > REVALIDATE_AGE_MS
        /\ cacheGet(nameCache, t.username) = S_TheOctocat
        /\ showsName(dom[t.el], t.username, S_TheOctocat)
        /\ \A u \in BagToSet(tasks) : u.el # NoNode

\* C21 -- A failed revalidation does not degrade a known label: when the
\* lookup of a background revalidation of h fails while the memory tier
\* holds a name L other than h, the memory tier still holds L after the
\* step, and so does the durable tier if it held L.
RevalidationKeepsLabel ==
    [][\A t \in BagToSet(tasks) :
          \A u \in BagToSet(tasks') :
              (/\ Resumed(t) /\ Spawned(u)
               /\ t.el = NoNode /\ u.el = NoNode
               /\ t.lookup = "none" /\ u.lookup = "failed"
               /\ Truthy(cacheGet(nameCache, t.username))
               /\ cacheGet(nameCache, t.username) # t.username)
              => /\ cacheGet(nameCache', t.username)
                        = cacheGet(nameCache, t.username)
                 /\ durableName(storage', t.username)
                        = durableName(storage, t.username)]_vars

\* The remote lookups for a handle that are in flight: the fetchRealName
\* calls suspended at their fetch.
inFlight(h) ==
    {t \in BagToSet(tasks) : t.username = h /\ t.pc = "fetching"}

\* C22 -- Bounded duplicate lookups: at most two remote lookups for a handle
\* are in flight at the same time.
LookupsBounded ==
    \A t \in BagToSet(tasks) :
        /\ Cardinality(inFlight(t.username)) <= 2
        /\ \A u \in inFlight(t.username) : CopiesIn(u, tasks) = 1

\* No work is pending: init() has ended, no message waits, no call is
\* suspended and the observer has nothing to drain.
Quiescent ==
    /\ init.pc \in {"done", "failed"}
    /\ messages = <<>>
    /\ tasks = EmptyBag
    /\ purge.pc = "idle"
    /\ ~debounceTimer

\* C23 -- Later toggle supersedes earlier: once toggle messages have been
\* handled and no work is pending, the flag holding the value the popup
\* saved with the last toggle, every marked element of the page displays
\* its handle without tooltip if that value is false, and its cached name
\* with tooltip @handle if it is true and the memory tier holds a name other
\* than the handle.
ToggleSupersedes ==
    (/\ Quiescent
     /\ acks # <<>> /\ acks[Len(acks)].action = "toggle"
     /\ S_enabled \in DOMAIN storage /\ storage[S_enabled] = isEnabled)
    => \A n \in Nodes :
          (dom[n].inDoc /\ Truthy(dom[n].marker)) =>
              IF isEnabled = BoolV(FALSE)
              THEN showsHandle(dom[n], NodeDef[n], dom[n].marker)
              ELSE named(n) =>
                      showsName(dom[n], dom[n].marker,
                                cacheGet(nameCache, dom[n].marker))

\* The flag values.
Flags == {BoolV(TRUE), BoolV(FALSE)}

\* Applying updateElementDisplay to the element n a second time with the
\* handle octocat, the name r and the flag en leaves the text nodes and the
\* title as the first application left them.
idempotentFor(n, r, en) ==
    LET once == updateElementDisplay(dom[n], NodeDef[n], S_octocat, r, en)
        twice == updateElementDisplay(once, NodeDef[n], S_octocat, r, en)
    IN  /\ twice.children = once.children
        /\ twice.title = once.title

ToggleOnResolves ==
    (/\ Quiescent
     /\ acks # <<>> /\ acks[Len(acks)].action = "toggle"
     /\ isEnabled = BoolV(TRUE)
     /\ S_enabled \in DOMAIN storage /\ storage[S_enabled] = isEnabled
     /\ rejected = {})
    => \A n \in Nodes :
          (dom[n].inDoc /\ Truthy(dom[n].marker)) =>
              /\ Truthy(cacheGet(nameCache, dom[n].marker))
              /\ IF named(n)
                 THEN showsName(dom[n], dom[n].marker,
                                cacheGet(nameCache, dom[n].marker))
                 ELSE showsHandle(dom[n], NodeDef[n], dom[n].marker)

\* C26 -- A failed durable read is a cache miss: when updateElement resumes
\* from a durable read that failed, no rejection escapes it, and the element
\* either goes on to the resolver or keeps displaying its handle.
ReadFailureIsMiss ==
    [][\A t \in BagToSet(tasks) :
          (Resumed(t) /\ t.pc \in {"hitRead", "missRead"} /\ ~t.got.ok) =>
              /\ "updateElement" \notin rejected' \ rejected
              /\ \/ \E u \in BagToSet(tasks') :
                       Spawned(u) /\ u.username = t.username
                 \/ showsHandle(dom'[t.el], NodeDef[t.el], t.username)
                 \/ t.pc = "hitRead"]_vars

\* C27 -- Display write frame: a render of a marked element keeps the number
\* and kind of its children, changes only text nodes whose trimmed text is,
\* case-insensitively, the handle, '@' plus the handle or the label, keeps
\* the leading and trailing whitespace of a text it rewrites, and leaves
\* the tooltip '@handle' after writing a label other than the handle,
\* none after writing the handle.
DisplayWriteFrame ==
    [][\A n \in scope.page :
          LET h == dom[n].marker
              r == orElse(cacheGet(nameCache, h), h)
              old == dom[n].children
              new == dom'[n].children
              matched(i) ==
                  toLowerCase(trim(old[i].text)) \in
                      {toLowerCase(h), <<"@">> \o toLowerCase(h),
                       toLowerCase(r)}
              written == {i \in 1..Len(old) : new[i] # old[i]}
          IN  events' = events + 1 =>
                  /\ Len(new) = Len(old)
                  /\ \A i \in 1..Len(old) :
                        new[i] # old[i] =>
                            /\ matched(i)
                            /\ new[i].svg = old[i].svg
                            /\ leadingSpace(new[i].text)
                                   = leadingSpace(old[i].text)
                            /\ trailingSpace(new[i].text)
                                   = trailingSpace(old[i].text)
                  /\ dom'[n].title # dom[n].title =>
                        \E i \in 1..Len(old) :
                            /\ matched(i)
                            /\ dom'[n].title =
                                 IF trim(new[i].text) = r /\ r # h
                                 THEN <<"@">> \o h ELSE Null]_vars

\* C28 -- Marked elements are never reclassified or re-fetched: outside a
\* cache refresh, which empties the processed set, no step starts a durable
\* read of updateElement for an element of the processed set or changes its
\* marker, and a step that resumes no suspended call changes its display
\* only to the render of its marker with the memory tier's name for it (the
\* marker when there is none).
MarkedNotReprocessed ==
    [][\A n \in processedElements :
          LET h == dom[n].marker
              render == updateElementDisplay(
                            dom[n], NodeDef[n], h,
                            orElse(cacheGet(nameCache', h), h), isEnabled')
          IN  ~(acks' # acks /\ acks'[Len(acks')].action = "refreshCache") =>
                  /\ \A u \in BagToSet(tasks') :
                        (Spawned(u) /\ u.el = n) =>
                            u.pc \notin {"hitRead", "missRead"}
                  /\ dom'[n].marker = h
                  /\ (\A t \in BagToSet(tasks) : ~Resumed(t)) =>
                        \/ dom'[n].children = dom[n].children
                              /\ dom'[n].title = dom[n].title
                        \/ dom'[n].children = render.children
                              /\ dom'[n].title = render.title]_vars

\* A toggle has been handled on a page whose element n1 was marked before:
\* its updateElement call took the processed branch and rendered the name.
MarkedRerendered ==
    /\ "n1" \in processedElements
    /\ acks # <<>> /\ acks[Len(acks)].action = "toggle"
    /\ isEnabled = BoolV(TRUE)
    /\ dom["n1"].marker = S_octocat
    /\ showsName(dom["n1"], S_octocat, S_TheOctocat)
    /\ tasks = EmptyBag

\* C29 -- Enabled flag consistency: once init() has finished and every
\* message of the popup has been handled, the in-memory flag is the durable
\* 'enabled' value (true when the key is absent).
FlagConsistent ==
    (/\ init.pc = "done"
     /\ messages = <<>>
     /\ rejected = {}
     /\ S_enabled \in DOMAIN storage => storage[S_enabled].kind = "bool")
    => isEnabled = IF S_enabled \in DOMAIN storage
                   THEN storage[S_enabled]
                   ELSE BoolV(TRUE)

\* The step is the one in which preloadCache fills the memory tier.
Preloads == init.pc = "preload" /\ init'.pc # "preload"

\* C30 -- Preload before processing: until preloadCache has finished no
\* element has been processed, no call is suspended and the observer is not
\* set up; and in the step in which preloadCache finishes, its read having
\* succeeded, the memory tier gets the name of every durable key that is
\* not reserved and holds a non-empty name, and no entry for a reserved key.
PreloadFirst ==
    /\ [](init.pc \in {"enabled", "preload"} =>
             /\ processedElements = {}
             /\ tasks = EmptyBag
             /\ ~observing)
    /\ [][(Preloads /\ init.got.ok) =>
             /\ \A k \in DOMAIN storage \ protectedKeys :
                   Truthy(durableName(storage, k)) =>
                       cacheGet(nameCache', k) = durableName(storage, k)
             /\ DOMAIN nameCache' \cap protectedKeys = {}]_vars

\* The elements on which updateElement has been invoked, in the order of
\* the invocations.
RECURSIVE Invoked(_)
Invoked(batches) ==
    IF batches = <<>>
    THEN <<>>
    ELSE Invoked(SubSeq(batches, 1, Len(batches) - 1))
         \o batches[Len(batches)]

\* C31 -- Batch ordering: processPage invokes updateElement on the matched
\* elements in document order, batch after batch; a batch holds between 1
\* and 50 elements; the yields taken are one for each batch dispatched while
\* the loop waits and one less once it has ended, when every element has
\* been dispatched; and no step of processPage waits for a suspended
\* updateElement call to end: the calls suspended before the step are
\* suspended after it.
BatchOrdering ==
    /\ [](/\ scan.pc # "called" =>
                /\ scan.elements = querySelectorAll(dom)
                /\ Invoked(scan.batches)
                       = SubSeq(scan.elements, 1,
                                Len(Invoked(scan.batches)))
          /\ \A b \in 1..Len(scan.batches) :
                Len(scan.batches[b]) \in 1..50
          /\ scan.pc = "yield" => scan.yields = Len(scan.batches)
          /\ scan.pc = "done" =>
                /\ Invoked(scan.batches) = scan.elements
                /\ scan.yields = IF scan.elements = <<>>
                                 THEN 0
                                 ELSE Len(scan.batches) - 1)
    /\ [][scan'.pc # scan.pc =>
             \A t \in BagToSet(tasks) :
                 CopiesIn(t, tasks') >= CopiesIn(t, tasks)]_vars

\* processPage has ended after three batches while an updateElement call of
\* its first batch is still suspended at its first await.
ScannedLongPage ==
    /\ scan.pc = "done"
    /\ Len(scan.batches) = 3
    /\ scan.yields = 2
    /\ \E t \in BagToSet(tasks) :
          /\ t.pc \in {"hitRead", "missRead"}
          /\ \E k \in 1..Len(scan.batches[1]) : scan.batches[1][k] = t.el

\* The durable rate-limit snapshot (undefined when there is none).
snapshotOf(store) ==
    IF S_rateLimitData \in DOMAIN store
    THEN store[S_rateLimitData]
    ELSE Undefined

\* C32 -- The rate-limit snapshot is informational only: a fetchRealName
\* call that resumes from its credential read issues the remote lookup
\* whatever the stored snapshot says; and whatever response a pending
\* lookup gets, successful or refused, the call overwrites the snapshot with
\* the response's limit, remaining and reset values if the response carries
\* the three headers, and leaves the snapshot as it is otherwise.
SnapshotInformational ==
    /\ [](\A t \in BagToSet(tasks) :
             t.pc = "fetching" =>
                 \A r \in RateOutcomes(t.username) :
                     snapshotOf(fetchDone(t, r).store) =
                         IF /\ r.body # "networkError"
                            /\ r.headers.limit # Null
                            /\ r.headers.remaining # Null
                            /\ r.headers.reset # Null
                         THEN RateV(parseInt(r.headers.limit),
                                    parseInt(r.headers.remaining),
                                    parseInt(r.headers.reset))
                         ELSE snapshotOf(storage))
    /\ [][\A t \in BagToSet(tasks) :
             (Resumed(t) /\ t.pc = "tokenRead" /\ t.got.ok) =>
                 \E u \in BagToSet(tasks') :
                     /\ Spawned(u)
                     /\ u.pc = "fetching"
                     /\ u.username = t.username
                     /\ u.el = t.el]_vars

\* A lookup is pending although the stored snapshot says the quota is used
\* up.
LookupDespiteSnapshot ==
    /\ \E t \in BagToSet(tasks) : t.pc = "fetching"
    /\ snapshotOf(storage) = ExhaustedSnapshot

\* A refused lookup has written the headers of its response as the snapshot.
SnapshotReplaced ==
    /\ \E t \in BagToSet(tasks) : t.pc = "rateWrite" /\ t.resp.status = 403
    /\ snapshotOf(storage) = RateV(5000, 4999, 1700003600)

\* The link of the markup m leads to a non-identity section (its first path
\* segment is in the exclusion set) or to a commit.
nonIdentityLink(m) ==
    /\ Truthy(m.href)
    /\ \/ isCommitUrl(m.href)
       \/ /\ pathMatch(m.href) # Null
          /\ toLowerCase(pathMatch(m.href)) \in EXCLUDED_PATHS

\* C33 -- The classifier rejects non-identity links: an element whose link
\* leads to an excluded section or to a commit is never given a handle,
\* whatever its classes and attributes.
NonIdentityRejected ==
    \A n \in scope.page :
        nonIdentityLink(NodeDef[n]) => dom[n].marker = Null

\* The element n can get a handle from its link target or from the
\* timeline's avatar link only: it has no data-user attribute and is no
\* mention, assignee or itemprop=author element.
linkOnly(n) ==
    /\ ~Truthy(NodeDef[n].dataUser)
    /\ NodeDef[n].classes \cap {"user-mention", "assignee"} = {}
    /\ NodeDef[n].itemprop # "author"

\* C34 -- Link-derived handles match the visible text: when an element that
\* can get its handle from the link target or the timeline rule only is
\* given a handle, the handle equals, case-insensitively, the trimmed text
\* the element displayed at that time; a link whose text differs from the
\* candidate stays without handle.
LinkHandleMatchesText ==
    [][\A n \in scope.page :
          (linkOnly(n) /\ dom'[n].marker # dom[n].marker) =>
              toLowerCase(dom'[n].marker) = toLowerCase(shown(dom[n]))]_vars

\* The link whose text is 'Octocat' has been given the handle of its author
\* parameter, the timeline link that of the avatar link, the link whose
\* text is k the Kelvin sign of its author parameter and the link whose text
\* ends in a final sigma its path segment in capitals, while the links
\* whose text is 'Profile' or ends in a sigma that is not final are
\* attached without handle.
LinkHandlesGiven ==
    /\ dom["n9"].marker = S_octocat
    /\ dom["n10"].marker = S_octocat
    /\ dom["n12"].marker = S_KelvinSign
    /\ dom["n13"].marker = codeUnits(913) \o codeUnits(931)
    /\ dom["n8"].inDoc
    /\ dom["n14"].inDoc
    /\ processedElements \cap {"n8", "n14"} = {}
    /\ init.pc = "done"
    /\ ~debounceTimer

\* C35 -- Disabled display invariant: when nothing is pending and the flag
\* is false, in memory and in the durable tier, every element of the page
\* that carries a recorded handle displays that handle ('@' first for a
\* mention) and has no tooltip.
DisabledShowsHandles ==
    (/\ Quiescent
     /\ isEnabled = BoolV(FALSE)
     /\ S_enabled \in DOMAIN storage /\ storage[S_enabled] = isEnabled
     /\ rejected = {}) =>
        \A n \in Nodes :
            (dom[n].inDoc /\ Truthy(dom[n].marker)) =>
                showsHandle(dom[n], NodeDef[n], dom[n].marker)

\* The handles for which the durable tier holds a name.
durableEntries(store) == {k \in DOMAIN store : store[k].kind = "entry"}

\* C36 -- No stale write-back after refresh: once a refreshCache message
\* has been handled while the flag was false, so that no lookup has been
\* issued since, no step writes a name into the memory tier or the durable
\* tier: what a lookup issued before the refresh brings back is dropped.
NoStaleWriteBack ==
    [][(/\ acks # <<>>
        /\ acks[Len(acks)].action = "refreshCache"
        /\ isEnabled = BoolV(FALSE)
        /\ acks' = acks) =>
           /\ nameCache' = nameCache
           /\ \A k \in durableEntries(storage') :
                 k \in durableEntries(storage)
                     /\ storage'[k] = storage[k]]_vars

\* C37 -- Pending nodes are eventually processed: elements leave the
\* observer's pending set only in a drain, which empties the set and passes
\* each of them to updateElement (they are in the processed set after it);
\* and once elements are pending, a drain eventually empties the set.
PendingProcessed ==
    /\ [][(\E n \in pendingElements : n \notin pendingElements') =>
             /\ pendingElements' = {}
             /\ \A n \in pendingElements : n \in processedElements']_vars
    /\ (pendingElements # {}) ~> (pendingElements = {})

\* The drain has processed the two elements the observer collected, before
\* the first page scan and with no message of the popup handled.
PendingDrained ==
    /\ init.pc = "timer"
    /\ acks = <<>>
    /\ processedElements = {"n1", "n2"}
    /\ pendingElements = {}
    /\ ~debounceTimer

=============================================================================
